---- MODULE Spec2Model ----
(***************************************************************************)
(* A model of the Solana transaction parser of tkhq/solana-parser          *)
(* (src/src/solana/parser.rs): hex decoding of the unsigned transaction,   *)
(* the signature envelope, version detection, the sequential section       *)
(* parsers, the compact-u16 reader, and the metadata pass that resolves    *)
(* instruction account indexes and interprets native-program instructions. *)
(*                                                                         *)
(* Text is a sequence of one-character strings; a byte is a number in      *)
(* 0..255; an error message is a sequence of message fragments.            *)
(***************************************************************************)
EXTENDS Integers, Sequences, FiniteSets, TLC

(***************************************************************************)
(* Program constants                                                       *)
(***************************************************************************)
LEN_SOL_SIGNATURE_BYTES == 64
LEN_SOL_ACCOUNT_KEY_BYTES == 32
LEN_ARRAY_HEADER_BYTES == 1
LEN_MESSAGE_HEADER_BYTES == 3
V0_TRANSACTION_INDICATOR == 128

(***************************************************************************)
(* Generic helpers                                                         *)
(***************************************************************************)
Take(s, n) == SubSeq(s, 1, n)
Drop(s, n) == SubSeq(s, n + 1, Len(s))
Min(a, b) == IF a < b THEN a ELSE b
Max(a, b) == IF a < b THEN b ELSE a
Repeat(x, n) == [i \in 1..n |-> x]

(* The element of a one-element set.  The({e(x) : x \in {v}}) is e(v) with *)
(* v computed once.                                                        *)
The(S) == CHOOSE x \in S : TRUE

RECURSIVE Flatten(_)
Flatten(ss) == IF ss = <<>> THEN <<>> ELSE Head(ss) \o Flatten(Tail(ss))

RECURSIVE SumLens(_)
SumLens(ss) == IF ss = <<>> THEN 0 ELSE Len(Head(ss)) + SumLens(Tail(ss))

(* Result values: Ok carries a value and the unparsed remainder. *)
Ok(v, rest) == [tag |-> "Ok", val |-> v, rest |-> rest]
Err(msg) == [tag |-> "Err", msg |-> msg]
Panic(why) == [tag |-> "Panic", why |-> why]
IsOk(r) == r.tag = "Ok"
IsErr(r) == r.tag = "Err"
IsPanic(r) == r.tag = "Panic"

(***************************************************************************)
(* Bit operations on machine integers                                      *)
(***************************************************************************)
RECURSIVE BitAnd(_, _)
BitAnd(a, b) ==
    IF a = 0 \/ b = 0 THEN 0
    ELSE (a % 2) * (b % 2) + 2 * BitAnd(a \div 2, b \div 2)

RECURSIVE BitOr(_, _)
BitOr(a, b) ==
    IF a = 0 THEN b
    ELSE IF b = 0 THEN a
    ELSE Max(a % 2, b % 2) + 2 * BitOr(a \div 2, b \div 2)

RECURSIVE Pow2(_)
Pow2(n) == IF n = 0 THEN 1 ELSE 2 * Pow2(n - 1)

(* u16 left shift: bits shifted past bit 15 are lost *)
Shl16(x, shift) == (x * Pow2(shift)) % 65536

(***************************************************************************)
(* Hex text                                                                *)
(***************************************************************************)
HexLower == <<"0","1","2","3","4","5","6","7","8","9","a","b","c","d","e","f">>
HexUpper == <<"0","1","2","3","4","5","6","7","8","9","A","B","C","D","E","F">>

IsHexDigit(c) == \E d \in 1..16 : HexLower[d] = c \/ HexUpper[d] = c
HexVal(c) == (CHOOSE d \in 1..16 : HexLower[d] = c \/ HexUpper[d] = c) - 1

(* format!("{:02x}", b) for each byte, concatenated *)
HexEncode(bytes) ==
    [i \in 1..(2 * Len(bytes)) |->
        IF i % 2 = 1 THEN HexLower[(bytes[(i + 1) \div 2] \div 16) + 1]
                     ELSE HexLower[(bytes[i \div 2] % 16) + 1]]

(* Non-first bytes of a multi-byte UTF-8 character: a str slice may not    *)
(* start or end in front of one of them.                                   *)
Utf8Continuation == {"utf8-cont"}
Utf8Lead == {"utf8-lead"}
IsCharBoundary(s, k) == k = 0 \/ k = Len(s) \/ (k < Len(s) /\ s[k + 1] \notin Utf8Continuation)

(* u8::from_str_radix(pair, 16): an optional leading "+" and hex digits *)
FromStrRadix16Ok(pair) ==
    \/ IsHexDigit(pair[1]) /\ IsHexDigit(pair[2])
    \/ pair[1] = "+" /\ IsHexDigit(pair[2])
FromStrRadix16(pair) ==
    IF pair[1] = "+" THEN HexVal(pair[2]) ELSE HexVal(pair[1]) * 16 + HexVal(pair[2])

(* The outcome of pair number p (0-based byte offset 2p) of the map *)
PairOutcome(s, p) ==
    IF ~IsCharBoundary(s, 2 * p) \/ ~IsCharBoundary(s, 2 * p + 2) THEN "panic"
    ELSE IF FromStrRadix16Ok(SubSeq(s, 2 * p + 1, 2 * p + 2)) THEN "ok"
    ELSE "err"

ErrInvalidBytes == <<"unsigned transaction provided is invalid when converted to bytes">>

(* parse_solana_transaction, the conversion of the text into bytes.  The   *)
(* collect stops at the first pair that is not "ok".                       *)
hex_to_bytes(s) ==
    IF Len(s) % 2 # 0 THEN Err(ErrInvalidBytes)
    ELSE LET n == Len(s) \div 2
             bad == {p \in 0..(n - 1) : PairOutcome(s, p) # "ok"}
         IN IF bad = {}
            THEN Ok([i \in 1..n |-> FromStrRadix16(SubSeq(s, 2 * i - 1, 2 * i))], <<>>)
            ELSE LET first == CHOOSE p \in bad : \A q \in bad : p <= q
                 IN IF PairOutcome(s, first) = "panic"
                    THEN Panic("byte index is not a char boundary")
                    ELSE Err(ErrInvalidBytes)

(***************************************************************************)
(* Section parsers                                                         *)
(***************************************************************************)
SectionErr(section) ==
    <<"Unsigned transaction provided is incorrectly formatted, error while parsing">> \o section

validate_length(bytes, length, section) ==
    IF Len(bytes) < length THEN Err(SectionErr(section)) ELSE Ok(TRUE, bytes)

(* The body taken from after the signature bytes counted from byte 0 *)
parse_signatures_without_header(unsigned_tx_bytes) ==
    IF IsErr(validate_length(unsigned_tx_bytes, LEN_ARRAY_HEADER_BYTES, <<"Signature Array Header">>))
    THEN Err(SectionErr(<<"Signature Array Header">>))
    ELSE The({
        IF IsErr(validate_length(unsigned_tx_bytes, 1 + parse_len, <<"Signatures">>))
        THEN Err(SectionErr(<<"Signatures">>))
        ELSE Ok([k \in 1..num_signatures |->
                    SubSeq(unsigned_tx_bytes,
                           2 + (k - 1) * LEN_SOL_SIGNATURE_BYTES,
                           1 + k * LEN_SOL_SIGNATURE_BYTES)],
                Drop(unsigned_tx_bytes, parse_len))
        : num_signatures \in {unsigned_tx_bytes[1]},
          parse_len \in {unsigned_tx_bytes[1] * LEN_SOL_SIGNATURE_BYTES} })

parse_signatures(unsigned_tx_bytes) ==
    IF IsErr(validate_length(unsigned_tx_bytes, LEN_ARRAY_HEADER_BYTES, <<"Signature Array Header">>))
    THEN Err(SectionErr(<<"Signature Array Header">>))
    ELSE The({
        IF IsErr(validate_length(unsigned_tx_bytes, parse_len, <<"Signatures">>))
        THEN Err(SectionErr(<<"Signatures">>))
        ELSE Ok([k \in 1..Min(num_signatures, (Len(unsigned_tx_bytes) - 1) \div LEN_SOL_SIGNATURE_BYTES) |->
                    \* chunks_exact(64) of the bytes after the header, the first num_signatures
                    SubSeq(unsigned_tx_bytes,
                           2 + (k - 1) * LEN_SOL_SIGNATURE_BYTES,
                           1 + k * LEN_SOL_SIGNATURE_BYTES)],
                Drop(unsigned_tx_bytes, parse_len))
        : num_signatures \in {unsigned_tx_bytes[1]},
          parse_len \in {1 + (unsigned_tx_bytes[1] * LEN_SOL_SIGNATURE_BYTES)} })

parse_header(tx_body_remainder) ==
    IF IsErr(validate_length(tx_body_remainder, LEN_MESSAGE_HEADER_BYTES, <<"Message Header">>))
    THEN Err(SectionErr(<<"Message Header">>))
    ELSE Ok([num_required_signatures |-> tx_body_remainder[1],
             num_readonly_signed_accounts |-> tx_body_remainder[2],
             num_readonly_unsigned_accounts |-> tx_body_remainder[3]],
            Drop(tx_body_remainder, LEN_MESSAGE_HEADER_BYTES))

parse_accounts(tx_body_remainder) ==
    IF IsErr(validate_length(tx_body_remainder, LEN_ARRAY_HEADER_BYTES, <<"Accounts Array Header">>))
    THEN Err(SectionErr(<<"Accounts Array Header">>))
    ELSE The({
        IF IsErr(validate_length(tx_body_remainder, len_accounts_array, <<"Accounts">>))
        THEN Err(SectionErr(<<"Accounts">>))
        ELSE Ok([i \in 1..accounts_num |->
                    \* the slice [(i*32)+1 ..= (i+1)*32] of the 0-based loop index
                    SubSeq(tx_body_remainder,
                           ((i - 1) * LEN_SOL_ACCOUNT_KEY_BYTES) + LEN_ARRAY_HEADER_BYTES + 1,
                           (i * LEN_SOL_ACCOUNT_KEY_BYTES) + 1)],
                Drop(tx_body_remainder, len_accounts_array))
        : accounts_num \in {tx_body_remainder[1]},
          len_accounts_array \in {(LEN_SOL_ACCOUNT_KEY_BYTES * tx_body_remainder[1]) + LEN_ARRAY_HEADER_BYTES} })

parse_block_hash(tx_body_remainder) ==
    IF IsErr(validate_length(tx_body_remainder, LEN_SOL_ACCOUNT_KEY_BYTES, <<"Block Hash">>))
    THEN Err(SectionErr(<<"Block Hash">>))
    ELSE Ok(Take(tx_body_remainder, LEN_SOL_ACCOUNT_KEY_BYTES),
            Drop(tx_body_remainder, LEN_SOL_ACCOUNT_KEY_BYTES))

ErrCompactNotEnough ==
    <<"error parsing unsigned transaction: unable to parse compact array header, not enough bytes">>
ErrCompactThirdByte ==
    <<"error parsing unsigned transaction: third byte in compact u16 has more than it's 2 least significant bits set">>

(* The shift of the next byte's data bits *)
next_shift_by_8(shift) == shift + 8
next_shift(shift) == shift + 7

(* The loop of read_compact_u16, one iteration per call *)
RECURSIVE read_compact_u16_loop(_, _, _, _)
read_compact_u16_loop(tx_body_remainder, value, shift, bytes_read) ==
    IF bytes_read >= Len(tx_body_remainder) THEN Err(ErrCompactNotEnough)
    ELSE The({
        IF shift = 14 /\ BitAnd(byte, 252) # 0 THEN Err(ErrCompactThirdByte)
        ELSE The({
            IF BitAnd(byte, 128) = 0
            THEN Ok(v, Drop(tx_body_remainder, bytes_read + 1))
            ELSE read_compact_u16_loop(tx_body_remainder, v, next_shift(shift), bytes_read + 1)
            : v \in {BitOr(value, Shl16(BitAnd(byte, 127), shift))} })
        : byte \in {tx_body_remainder[bytes_read + 1]} })

read_compact_u16(tx_body_remainder) == read_compact_u16_loop(tx_body_remainder, 0, 0, 0)

parse_compact_array_of_bytes(tx_body_remainder, section) ==
    IF IsErr(validate_length(tx_body_remainder, LEN_ARRAY_HEADER_BYTES, <<section, "Array Header">>))
    THEN Err(SectionErr(<<section, "Array Header">>))
    ELSE The({
        IF IsErr(h) THEN h
        ELSE IF IsErr(validate_length(h.rest, h.val * LEN_ARRAY_HEADER_BYTES, <<section, "Array">>))
        THEN Err(SectionErr(<<section, "Array">>))
        ELSE Ok(Take(h.rest, h.val * LEN_ARRAY_HEADER_BYTES),
                Drop(h.rest, h.val * LEN_ARRAY_HEADER_BYTES))
        : h \in {read_compact_u16(tx_body_remainder)} })

parse_single_instruction(tx_body_remainder) ==
    IF IsErr(validate_length(tx_body_remainder, LEN_ARRAY_HEADER_BYTES, <<"Instruction Program Index">>))
    THEN Err(SectionErr(<<"Instruction Program Index">>))
    ELSE The({
        IF IsErr(a) THEN a
        ELSE The({
            IF IsErr(d) THEN d
            ELSE Ok([program_id_index |-> tx_body_remainder[1],
                     accounts |-> a.val,
                     data |-> d.val], d.rest)
            : d \in {parse_compact_array_of_bytes(a.rest, "Instruction Data")} })
        : a \in {parse_compact_array_of_bytes(Drop(tx_body_remainder, LEN_ARRAY_HEADER_BYTES),
                                              "Instruction Account Indexes")} })

RECURSIVE parse_instructions_loop(_, _, _)
parse_instructions_loop(todo, compiled_insts, parsed_tx_body_remainder) ==
    IF todo = 0 THEN Ok(compiled_insts, parsed_tx_body_remainder)
    ELSE The({
        IF IsErr(r) THEN r
        ELSE parse_instructions_loop(todo - 1, Append(compiled_insts, r.val), r.rest)
        : r \in {parse_single_instruction(parsed_tx_body_remainder)} })

parse_instructions(tx_body_remainder) ==
    IF IsErr(validate_length(tx_body_remainder, LEN_ARRAY_HEADER_BYTES, <<"Instructions Array Header">>))
    THEN Err(SectionErr(<<"Instructions Array Header">>))
    ELSE parse_instructions_loop(tx_body_remainder[1], <<>>,
                                 Drop(tx_body_remainder, LEN_ARRAY_HEADER_BYTES))

parse_single_address_table_lookup(tx_body_remainder) ==
    IF IsErr(validate_length(tx_body_remainder, LEN_SOL_ACCOUNT_KEY_BYTES,
                             <<"Address Table Lookup Program Account Key">>))
    THEN Err(SectionErr(<<"Address Table Lookup Program Account Key">>))
    ELSE The({
        IF IsErr(w) THEN w
        ELSE The({
            IF IsErr(r) THEN r
            ELSE Ok([account_key |-> Take(tx_body_remainder, LEN_SOL_ACCOUNT_KEY_BYTES),
                     writable_indexes |-> w.val,
                     readonly_indexes |-> r.val], r.rest)
            : r \in {parse_compact_array_of_bytes(w.rest, "Address Table Lookup Read-Only Indexes")} })
        : w \in {parse_compact_array_of_bytes(Drop(tx_body_remainder, LEN_SOL_ACCOUNT_KEY_BYTES),
                                              "Address Table Lookup Writable Indexes")} })

RECURSIVE parse_address_table_lookups_loop(_, _, _)
parse_address_table_lookups_loop(todo, lookups, parsed_remainder) ==
    IF todo = 0 THEN Ok(lookups, parsed_remainder)
    ELSE The({
        IF IsErr(r) THEN r
        ELSE parse_address_table_lookups_loop(todo - 1, Append(lookups, r.val), r.rest)
        : r \in {parse_single_address_table_lookup(parsed_remainder)} })

parse_address_table_lookups(tx_body_remainder) ==
    IF IsErr(validate_length(tx_body_remainder, LEN_ARRAY_HEADER_BYTES,
                             <<"Instructions Address Table Lookup Header">>))
    THEN Err(SectionErr(<<"Instructions Address Table Lookup Header">>))
    ELSE parse_address_table_lookups_loop(tx_body_remainder[1], <<>>,
                                          Drop(tx_body_remainder, LEN_ARRAY_HEADER_BYTES))

ErrLegacyExtraneous ==
    <<"Legacy Transaction formatted incorrectly contains", "extraneous bytes at the end">>
ErrV0Extraneous ==
    <<"Solana V0 Transaction formatted incorrectly contains", "extraneous bytes at the end">>

(* The map_err wrappers of parse_solana_transaction; {:#?} prints the      *)
(* section error as a quoted string.                                       *)
WrapFullTransaction(e) ==
    <<"Error parsing full transaction. If this is just a message instead of a full transaction, parse using the",
      "--message", "flag. Parsing Error:", "\"">> \o e \o <<"\"">>
WrapMessageV0(e) ==
    <<"Error parsing message. If this is a serialized Solana transaction with signatures, parse using the",
      "--transaction", "flag. Parsing error:", "\"">> \o e \o <<"\"">>
WrapMessageLegacyWithFullHint(e) == WrapFullTransaction(e)
WrapMessageLegacy(e) ==
    <<"Error parsing message. If this is a full solana transaction with signatures or signature placeholders, parse using the",
      "--transaction", "flag. Parsing Error:", "\"">> \o e \o <<"\"">>

(***************************************************************************)
(* Rendering of keys, hashes and numbers                                   *)
(***************************************************************************)
Base58Alphabet ==
    <<"1","2","3","4","5","6","7","8","9","A","B","C","D","E","F","G","H","J","K","L","M","N","P","Q","R","S","T","U","V","W","X","Y","Z","a","b","c","d","e","f","g","h","i","j","k","m","n","o","p","q","r","s","t","u","v","w","x","y","z">>
DecimalDigits == <<"0","1","2","3","4","5","6","7","8","9">>

RECURSIVE StripLeadingZeros(_)
StripLeadingZeros(num) ==
    IF num # <<>> /\ Head(num) = 0 THEN StripLeadingZeros(Tail(num)) ELSE num

RECURSIVE CountLeadingZeros(_)
CountLeadingZeros(num) ==
    IF num # <<>> /\ Head(num) = 0 THEN 1 + CountLeadingZeros(Tail(num)) ELSE 0

(* One long division of a big-endian base-256 number by a small base *)
RECURSIVE DivModLoop(_, _, _, _, _)
DivModLoop(num, at, base, r, q) ==
    IF at > Len(num) THEN [q |-> q, r |-> r]
    ELSE DivModLoop(num, at + 1, base, (r * 256 + num[at]) % base,
                    Append(q, (r * 256 + num[at]) \div base))

(* Digits (most significant first) of a big-endian base-256 number that    *)
(* has no leading zero byte                                                 *)
RECURSIVE DigitsOf(_, _, _)
DigitsOfNext(dm, base, acc) == DigitsOf(StripLeadingZeros(dm.q), base, <<dm.r>> \o acc)
DigitsOf(n, base, acc) ==
    IF n = <<>> THEN acc ELSE DigitsOfNext(DivModLoop(n, 1, base, 0, <<>>), base, acc)

(* bs58 encoding, the Display of Pubkey and Hash *)
Base58Encode(bytes) ==
    LET ds == DigitsOf(StripLeadingZeros(bytes), 58, <<>>)
    IN Repeat("1", CountLeadingZeros(bytes)) \o [i \in 1..Len(ds) |-> Base58Alphabet[ds[i] + 1]]

Reverse(s) == [i \in 1..Len(s) |-> s[Len(s) + 1 - i]]

(* to_string of an unsigned integer given by its little-endian bytes *)
DecimalString(le_bytes) ==
    LET ds == DigitsOf(StripLeadingZeros(Reverse(le_bytes)), 10, <<>>)
    IN IF ds = <<>> THEN <<"0">> ELSE [i \in 1..Len(ds) |-> DecimalDigits[ds[i] + 1]]

SOL_SYSTEM_PROGRAM_KEY ==
    <<"1","1","1","1","1","1","1","1","1","1","1","1","1","1","1","1","1","1","1","1","1","1","1","1","1","1","1","1","1","1","1","1">>
TOKEN_PROGRAM_KEY ==
    <<"T","o","k","e","n","k","e","g","Q","f","e","Z","y","i","N","w","A","J","b","N","b","G","K","P","F","X","C","W","u","B","v","f","9","S","s","6","2","3","V","Q","5","D","A">>
TOKEN_2022_PROGRAM_KEY ==
    <<"T","o","k","e","n","z","Q","d","B","N","b","L","q","P","5","V","E","h","d","k","A","S","6","E","P","F","L","C","1","P","H","n","B","q","C","X","E","p","P","x","u","E","b">>
ADDRESS_TABLE_LOOKUP ==
    <<"A","D","D","R","E","S","S","_","T","A","B","L","E","_","L","O","O","K","U","P">>

(* Key bytes used by the inputs below *)
SystemKeyBytes == Repeat(0, 32)
TokenKeyBytes ==
    <<6, 221, 246, 225, 215, 101, 161, 147, 217, 203, 225, 70, 206, 235, 121, 172,
      28, 180, 133, 237, 95, 91, 55, 145, 58, 140, 245, 133, 126, 255, 0, 169>>
Token2022KeyBytes ==
    <<6, 221, 246, 225, 238, 117, 143, 222, 24, 66, 93, 188, 228, 108, 205, 218,
      182, 26, 252, 77, 131, 185, 13, 39, 254, 189, 249, 40, 216, 161, 139, 252>>
(* bpf_loader_upgradeable::id(), BPFLoaderUpgradeab1e11111111111111111111111 *)
UpgradeableLoaderKeyBytes ==
    <<2, 168, 246, 145, 78, 136, 161, 176, 226, 16, 21, 62, 247, 99, 174, 43,
      0, 194, 185, 61, 22, 193, 36, 210, 192, 83, 122, 16, 4, 128, 0, 0>>
UserKeyBytes(k) == [i \in 1..32 |-> (k * 40 + i) % 256]
TableKeyBytes(k) == [i \in 1..32 |-> (200 + k * 7 + 3 * i) % 256]
BlockHashBytes == [i \in 1..32 |-> (5 * i + 9) % 256]

MaxUserKeys == 4
MaxTableKeys == 4
KnownKeys ==
    {SystemKeyBytes, TokenKeyBytes, Token2022KeyBytes, UpgradeableLoaderKeyBytes, BlockHashBytes}
    \cup {UserKeyBytes(k) : k \in 1..MaxUserKeys}
    \cup {TableKeyBytes(k) : k \in 1..MaxTableKeys}
(* The encodings of the keys above, computed once *)
KnownKeyStrings == [k \in KnownKeys |-> Base58Encode(k)]

(* Pubkey::to_string / Hash::to_string *)
to_string(key) == IF key \in KnownKeys THEN KnownKeyStrings[key] ELSE Base58Encode(key)

(***************************************************************************)
(* The parsed message (solana_sdk VersionedMessage) and its accessors      *)
(***************************************************************************)
LegacyMessage(header, account_keys, recent_blockhash, instructions) ==
    [version |-> "legacy", header |-> header, account_keys |-> account_keys,
     recent_blockhash |-> recent_blockhash, instructions |-> instructions,
     address_table_lookups |-> <<>>]
VersionZeroMessage(header, account_keys, recent_blockhash, instructions, lookups) ==
    [version |-> "v0", header |-> header, account_keys |-> account_keys,
     recent_blockhash |-> recent_blockhash, instructions |-> instructions,
     address_table_lookups |-> lookups]

static_account_keys(message) == message.account_keys

(* 0-based index into a sequence *)
At(s, i) == s[i + 1]

is_signer(message, index) == index < message.header.num_required_signatures

SaturatingSub(a, b) == IF a < b THEN 0 ELSE a - b

(* The header rule for a static key index *)
is_writable_index(message, i) ==
    \/ i < SaturatingSub(message.header.num_required_signatures,
                         message.header.num_readonly_signed_accounts)
    \/ /\ i >= message.header.num_required_signatures
       /\ i < SaturatingSub(Len(message.account_keys),
                            message.header.num_readonly_unsigned_accounts)

is_key_called_as_program(message, key_index) ==
    \E k \in 1..Len(message.instructions) :
        message.instructions[k].program_id_index = key_index

is_upgradeable_loader_present(message) ==
    \E k \in 1..Len(message.account_keys) :
        message.account_keys[k] = UpgradeableLoaderKeyBytes

(* Whether a key that some instruction calls as a program loses its        *)
(* writable flag                                                           *)
demote_program_id(message, i) ==
    is_key_called_as_program(message, i) /\ ~is_upgradeable_loader_present(message)

(* is_maybe_writable(i, None): no reserved keys are passed *)
is_maybe_writable_without_demotion(message, i) == is_writable_index(message, i)
is_maybe_writable(message, i) ==
    is_writable_index(message, i) /\ ~demote_program_id(message, i)

is_invoked(message, key_index) == is_key_called_as_program(message, key_index)

(***************************************************************************)
(* Address table lookup resolution                                         *)
(***************************************************************************)
ErrLegacyOutOfBounds == <<"Legacy transaction instruction account index", "out of bounds">>
ErrVersionedOutOfBounds == <<"Versioned transaction instruction account index", "out of bounds">>

SingleLookup(l, index, writable) ==
    [address_table_key |-> to_string(l.account_key), index |-> index, writable |-> writable]

(* What one lookup adds to the running offset in each of the two walks *)
writable_walk_advance(l) == Len(l.writable_indexes)
readonly_walk_advance_by_writable(l) == Len(l.writable_indexes)
readonly_walk_advance(l) == Len(l.readonly_indexes)

RECURSIVE readonly_walk(_, _, _, _)
readonly_walk(lookups, at, lookup_index, num_parsed_indexes) ==
    IF at > Len(lookups) THEN Err(ErrVersionedOutOfBounds)
    ELSE IF lookup_index < num_parsed_indexes + Len(lookups[at].readonly_indexes)
         THEN IF lookup_index < num_parsed_indexes
              THEN Panic("attempt to subtract with overflow")
              ELSE Ok(SingleLookup(lookups[at],
                                   At(lookups[at].readonly_indexes, lookup_index - num_parsed_indexes),
                                   FALSE), <<>>)
         ELSE readonly_walk(lookups, at + 1, lookup_index,
                            num_parsed_indexes + readonly_walk_advance(lookups[at]))

RECURSIVE writable_walk(_, _, _, _)
writable_walk(lookups, at, lookup_index, num_parsed_indexes) ==
    IF at > Len(lookups) THEN readonly_walk(lookups, 1, lookup_index, num_parsed_indexes)
    ELSE IF lookup_index < num_parsed_indexes + Len(lookups[at].writable_indexes)
         THEN Ok(SingleLookup(lookups[at],
                              At(lookups[at].writable_indexes, lookup_index - num_parsed_indexes),
                              TRUE), <<>>)
         ELSE writable_walk(lookups, at + 1, lookup_index,
                            num_parsed_indexes + writable_walk_advance(lookups[at]))

resolve_address_table_lookup(message, index) ==
    IF message.version = "legacy" THEN Err(ErrLegacyOutOfBounds)
    ELSE writable_walk(message.address_table_lookups, 1,
                       index - Len(message.account_keys), 0)

(***************************************************************************)
(* Native-program instruction data                                         *)
(***************************************************************************)
AllZero(bytes) == \A i \in 1..Len(bytes) : bytes[i] = 0

(* str::from_utf8 on the bytes of a bincode String *)
IsCont(b, lo, hi) == b >= lo /\ b <= hi
RECURSIVE IsValidUtf8(_)
IsValidUtf8(bytes) ==
    IF bytes = <<>> THEN TRUE
    ELSE LET b == bytes[1]
             n == Len(bytes)
         IN IF b <= 127 THEN IsValidUtf8(Drop(bytes, 1))
            ELSE IF b >= 194 /\ b <= 223
                 THEN n >= 2 /\ IsCont(bytes[2], 128, 191) /\ IsValidUtf8(Drop(bytes, 2))
            ELSE IF b >= 224 /\ b <= 239
                 THEN /\ n >= 3
                      /\ IsCont(bytes[2], IF b = 224 THEN 160 ELSE 128, IF b = 237 THEN 159 ELSE 191)
                      /\ IsCont(bytes[3], 128, 191)
                      /\ IsValidUtf8(Drop(bytes, 3))
            ELSE IF b >= 240 /\ b <= 244
                 THEN /\ n >= 4
                      /\ IsCont(bytes[2], IF b = 240 THEN 144 ELSE 128, IF b = 244 THEN 143 ELSE 191)
                      /\ IsCont(bytes[3], 128, 191)
                      /\ IsCont(bytes[4], 128, 191)
                      /\ IsValidUtf8(Drop(bytes, 4))
            ELSE FALSE

(* Whether `bytes` starts with `pre` fixed bytes, a bincode String (u64    *)
(* little-endian length, then that many UTF-8 bytes) and `post` fixed      *)
(* bytes.  A length whose upper seven bytes are not zero exceeds any input *)
(* considered here.                                                        *)
HasSeedLayout(bytes, pre, post) ==
    /\ Len(bytes) >= pre + 8
    /\ AllZero(SubSeq(bytes, pre + 2, pre + 8))
    /\ LET n == bytes[pre + 1]
       IN /\ Len(bytes) >= pre + 8 + n + post
          /\ IsValidUtf8(SubSeq(bytes, pre + 9, pre + 8 + n))

(* bincode::deserialize::<SystemInstruction>: a u32 little-endian variant  *)
(* index, then the fields of the variant; trailing bytes are accepted.     *)
(* Only Transfer's field is kept.                                          *)
SystemInstructionDeserialize(data) ==
    IF Len(data) < 4 \/ ~AllZero(SubSeq(data, 2, 4)) \/ data[1] > 12
    THEN [tag |-> "Err"]
    ELSE LET variant == data[1]
             body == Drop(data, 4)
             fixed == CASE variant = 0 -> 48    \* CreateAccount
                        [] variant = 1 -> 32    \* Assign
                        [] variant = 2 -> 8     \* Transfer
                        [] variant = 4 -> 0     \* AdvanceNonceAccount
                        [] variant = 5 -> 8     \* WithdrawNonceAccount
                        [] variant = 6 -> 32    \* InitializeNonceAccount
                        [] variant = 7 -> 32    \* AuthorizeNonceAccount
                        [] variant = 8 -> 8     \* Allocate
                        [] variant = 12 -> 0    \* UpgradeNonceAccount
                        [] OTHER -> 0
             complete == CASE variant = 3 -> HasSeedLayout(body, 32, 48)   \* CreateAccountWithSeed
                           [] variant = 9 -> HasSeedLayout(body, 32, 40)   \* AllocateWithSeed
                           [] variant = 10 -> HasSeedLayout(body, 32, 32)  \* AssignWithSeed
                           [] variant = 11 -> HasSeedLayout(body, 8, 32)   \* TransferWithSeed
                           [] OTHER -> Len(body) >= fixed
         IN IF ~complete THEN [tag |-> "Err"]
            ELSE IF variant = 2 THEN [tag |-> "Transfer", lamports |-> Take(body, 8)]
            ELSE [tag |-> "Other"]

(* A u64 read from fewer than eight bytes, the missing ones taken as zero *)
unpack_u64_padding(input) ==
    Ok([k \in 1..8 |-> IF k <= Len(input) THEN input[k] ELSE 0], Drop(input, Min(8, Len(input))))
(* unpack_u64: the value is kept as its eight little-endian bytes *)
unpack_u64(input) ==
    IF Len(input) < 8 THEN Err(<<"Error parsing u64 in spl instruction">>)
    ELSE Ok(Take(input, 8), Drop(input, 8))

SplErr(variant, field) == <<"Error while parsing spl instruction", variant, "--", field>>

(* SplInstructionData::Unsupported as parse_spl_transfer_data returns it *)
UnsupportedRejected == Err(<<"Error while parsing spl instruction data header">>)
Unsupported == Ok([kind |-> "Unsupported"], <<>>)

parse_spl_transfer_data(instruction_data) ==
    IF instruction_data = <<>> THEN Err(<<"Error while parsing spl instruction data header">>)
    ELSE The({
        IF tag = 3 THEN
            The({IF IsErr(a) THEN Err(SplErr("Transfer", "amount"))
                 ELSE Ok([kind |-> "Transfer", amount |-> a.val], <<>>)
                 : a \in {unpack_u64(rest)} })
        ELSE IF tag = 12 THEN
            The({IF IsErr(a) THEN Err(SplErr("TransferChecked", "amount"))
                 ELSE IF a.rest = <<>> THEN Err(SplErr("TransferChecked", "decimals"))
                 ELSE Ok([kind |-> "TransferChecked", amount |-> a.val,
                          decimals |-> Head(a.rest)], <<>>)
                 : a \in {unpack_u64(rest)} })
        ELSE IF tag = 26 THEN
            IF rest = <<>> THEN Err(SplErr("TransferCheckedWithFee", "instruction index"))
            ELSE IF Head(rest) = 1 THEN
                The({IF IsErr(a) THEN Err(SplErr("TransferCheckedWithFee", "amount"))
                     ELSE IF a.rest = <<>> THEN Err(SplErr("TransferCheckedWithFee", "decimals"))
                     ELSE The({IF IsErr(f) THEN Err(SplErr("TransferCheckedWithFee", "fee"))
                               ELSE Ok([kind |-> "TransferCheckedWithFee", amount |-> a.val,
                                        decimals |-> Head(a.rest), fee |-> f.val], <<>>)
                               : f \in {unpack_u64(Tail(a.rest))} })
                     : a \in {unpack_u64(Tail(rest))} })
            ELSE Unsupported
        ELSE Unsupported
        : tag \in {Head(instruction_data)}, rest \in {Tail(instruction_data)} })

(* Display of AccountAddress *)
AddressToString(a) ==
    IF a.kind = "Static" THEN a.account.account_key ELSE ADDRESS_TABLE_LOOKUP

None == [some |-> FALSE]
Some(v) == [some |-> TRUE, val |-> v]

ErrSplAccounts == <<"Invalid number of accounts provided for spl token transfer instruction">>

get_spl_multisig_signers_from_owner(accounts, num_accts_before_signer) ==
    IF Len(accounts) < num_accts_before_signer THEN Err(ErrSplAccounts)
    ELSE Ok([k \in 1..(Len(accounts) - num_accts_before_signer + 1) |->
                AddressToString(accounts[num_accts_before_signer - 1 + k])], <<>>)
get_spl_multisig_signers_if_exist(accounts, num_accts_before_signer) ==
    IF Len(accounts) < num_accts_before_signer THEN Err(ErrSplAccounts)
    ELSE Ok([k \in 1..(Len(accounts) - num_accts_before_signer) |->
                AddressToString(accounts[num_accts_before_signer + k])], <<>>)

parse_spl_instruction_data(token_instruction, accounts) ==
    IF token_instruction.kind = "Transfer" THEN
        The({IF IsErr(signers) THEN signers
             ELSE Ok(Some([amount |-> DecimalString(token_instruction.amount),
                           to |-> AddressToString(At(accounts, 1)),
                           from |-> AddressToString(At(accounts, 0)),
                           owner |-> AddressToString(At(accounts, 2)),
                           signers |-> signers.val,
                           decimals |-> None, fee |-> None, token_mint |-> None]), <<>>)
             : signers \in {get_spl_multisig_signers_if_exist(accounts, 3)} })
    ELSE IF token_instruction.kind = "TransferChecked" THEN
        The({IF IsErr(signers) THEN signers
             ELSE Ok(Some([amount |-> DecimalString(token_instruction.amount),
                           to |-> AddressToString(At(accounts, 2)),
                           from |-> AddressToString(At(accounts, 0)),
                           token_mint |-> Some(AddressToString(At(accounts, 1))),
                           owner |-> AddressToString(At(accounts, 3)),
                           signers |-> signers.val,
                           decimals |-> Some(DecimalString(<<token_instruction.decimals>>)),
                           fee |-> None]), <<>>)
             : signers \in {get_spl_multisig_signers_if_exist(accounts, 4)} })
    ELSE IF token_instruction.kind = "TransferCheckedWithFee" THEN
        The({IF IsErr(signers) THEN signers
             ELSE Ok(Some([amount |-> DecimalString(token_instruction.amount),
                           to |-> AddressToString(At(accounts, 2)),
                           from |-> AddressToString(At(accounts, 0)),
                           token_mint |-> Some(AddressToString(At(accounts, 1))),
                           signers |-> signers.val,
                           owner |-> AddressToString(At(accounts, 3)),
                           decimals |-> Some(DecimalString(<<token_instruction.decimals>>)),
                           fee |-> Some(DecimalString(token_instruction.fee))]), <<>>)
             : signers \in {get_spl_multisig_signers_if_exist(accounts, 4)} })
    ELSE Ok(None, <<>>)

(***************************************************************************)
(* The metadata pass                                                       *)
(***************************************************************************)
StaticAccount(message, a) ==
    [account_key |-> to_string(At(static_account_keys(message), a)),
     signer |-> is_signer(message, a),
     writable |-> is_maybe_writable(message, a)]

(* The loop over the account indexes of one instruction *)
RECURSIVE resolve_accounts_skipping(_, _, _, _)
resolve_accounts_skipping(message, todo, at, acc) ==
    IF at > Len(todo) THEN Ok(acc, <<>>)
    ELSE IF todo[at] >= Len(static_account_keys(message))
    THEN The({
            resolve_accounts_skipping(message, todo, at + 1,
                IF ~IsOk(atlu) THEN acc
                ELSE [acc EXCEPT !.address_table_lookups = Append(@, atlu.val),
                                 !.account_addresses =
                                     Append(@, [kind |-> "AddressTableLookUp", lookup |-> atlu.val])])
            : atlu \in {resolve_address_table_lookup(message, todo[at])} })
    ELSE The({
            resolve_accounts_skipping(message, todo, at + 1,
                [acc EXCEPT !.accounts = Append(@, acct),
                            !.account_addresses = Append(@, [kind |-> "Static", account |-> acct])])
            : acct \in {StaticAccount(message, todo[at])} })

(* ... that lists a static key once per instruction *)
RECURSIVE resolve_accounts_deduplicating(_, _, _, _)
resolve_accounts_deduplicating(message, todo, at, acc) ==
    IF at > Len(todo) THEN Ok(acc, <<>>)
    ELSE IF todo[at] >= Len(static_account_keys(message))
    THEN The({
            IF ~IsOk(atlu) THEN atlu
            ELSE resolve_accounts_deduplicating(message, todo, at + 1,
                    [acc EXCEPT !.address_table_lookups = Append(@, atlu.val),
                                !.account_addresses =
                                    Append(@, [kind |-> "AddressTableLookUp", lookup |-> atlu.val])])
            : atlu \in {resolve_address_table_lookup(message, todo[at])} })
    ELSE IF \E q \in 1..(at - 1) : todo[q] = todo[at]
    THEN resolve_accounts_deduplicating(message, todo, at + 1, acc)
    ELSE The({
            resolve_accounts_deduplicating(message, todo, at + 1,
                [acc EXCEPT !.accounts = Append(@, acct),
                            !.account_addresses = Append(@, [kind |-> "Static", account |-> acct])])
            : acct \in {StaticAccount(message, todo[at])} })

RECURSIVE resolve_accounts(_, _, _, _)
resolve_accounts(message, todo, at, acc) ==
    IF at > Len(todo) THEN Ok(acc, <<>>)
    ELSE IF todo[at] >= Len(static_account_keys(message))
    THEN The({
            IF ~IsOk(atlu) THEN atlu
            ELSE resolve_accounts(message, todo, at + 1,
                    [acc EXCEPT !.address_table_lookups = Append(@, atlu.val),
                                !.account_addresses =
                                    Append(@, [kind |-> "AddressTableLookUp", lookup |-> atlu.val])])
            : atlu \in {resolve_address_table_lookup(message, todo[at])} })
    ELSE The({
            resolve_accounts(message, todo, at + 1,
                [acc EXCEPT !.accounts = Append(@, acct),
                            !.account_addresses = Append(@, [kind |-> "Static", account |-> acct])])
            : acct \in {StaticAccount(message, todo[at])} })

ErrSystemParse == <<"Could not parse system instruction">>
ErrSystemTransferArgs == <<"System Program Transfer Instruction should have", "exactly 2 arguments">>

(* The SolTransfer record of a System transfer *)
SolTransferReversed(lamports, account_addresses) ==
    [amount |-> DecimalString(lamports),
     to |-> AddressToString(At(account_addresses, 0)),
     from |-> AddressToString(At(account_addresses, 1))]
SolTransfer(lamports, account_addresses) ==
    [amount |-> DecimalString(lamports),
     to |-> AddressToString(At(account_addresses, 1)),
     from |-> AddressToString(At(account_addresses, 0))]

(* The references handed to the native-program interpretation: the static  *)
(* accounts first, then the lookups                                        *)
native_accounts_static_first(resolved) ==
    [k \in 1..Len(resolved.accounts) |-> [kind |-> "Static", account |-> resolved.accounts[k]]]
    \o [k \in 1..Len(resolved.address_table_lookups) |->
            [kind |-> "AddressTableLookUp", lookup |-> resolved.address_table_lookups[k]]]
(* ... as the code hands them: account_addresses, one entry per account    *)
(* index of the instruction, in the order of the indexes                   *)
native_accounts(resolved) == resolved.account_addresses

(* What a System instruction other than Transfer adds: the `if let` has no *)
(* else branch                                                             *)
OtherSystemInstructionRejected == Err(ErrSystemParse)
OtherSystemInstruction == Ok([transfers |-> <<>>, spl_transfers |-> <<>>], <<>>)

(* The match on the program key: what the instruction adds to the two     *)
(* transfer lists                                                          *)
interpret_native(program_key, data, account_addresses) ==
    IF program_key = SOL_SYSTEM_PROGRAM_KEY THEN
        The({
            IF system_instruction.tag = "Err" THEN Err(ErrSystemParse)
            ELSE IF system_instruction.tag = "Transfer" THEN
                 IF Len(account_addresses) # 2 THEN Err(ErrSystemTransferArgs)
                 ELSE Ok([transfers |-> <<SolTransfer(system_instruction.lamports, account_addresses)>>,
                          spl_transfers |-> <<>>], <<>>)
            ELSE OtherSystemInstruction
            : system_instruction \in {SystemInstructionDeserialize(data)} })
    ELSE IF program_key = TOKEN_PROGRAM_KEY \/ program_key = TOKEN_2022_PROGRAM_KEY THEN
        The({
            IF IsErr(token_program_instruction) THEN token_program_instruction
            ELSE The({
                    IF IsErr(spl_tranfer_opt) THEN spl_tranfer_opt
                    ELSE Ok([transfers |-> <<>>,
                             spl_transfers |-> IF spl_tranfer_opt.val.some
                                               THEN <<spl_tranfer_opt.val.val>> ELSE <<>>], <<>>)
                    : spl_tranfer_opt \in {parse_spl_instruction_data(token_program_instruction.val,
                                                                      account_addresses)} })
            : token_program_instruction \in {parse_spl_transfer_data(data)} })
    ELSE Ok([transfers |-> <<>>, spl_transfers |-> <<>>], <<>>)

(* One iteration of the loop over the instructions *)
process_instruction(message, i) ==
    The({
        IF ~IsOk(resolved) THEN resolved
        ELSE IF i.program_id_index >= Len(static_account_keys(message))
             THEN Panic("program id index out of bounds")
        ELSE The({
                The({
                    IF ~IsOk(native) THEN native
                    ELSE Ok([inst |-> [program_key |-> program_key,
                                       accounts |-> resolved.val.accounts,
                                       instruction_data_hex |-> HexEncode(i.data),
                                       address_table_lookups |-> resolved.val.address_table_lookups],
                             transfers |-> native.val.transfers,
                             spl_transfers |-> native.val.spl_transfers], <<>>)
                    : native \in {interpret_native(program_key, i.data, native_accounts(resolved.val))} })
                : program_key \in {to_string(At(static_account_keys(message), i.program_id_index))} })
        : resolved \in {resolve_accounts(message, i.accounts, 1,
                            [account_addresses |-> <<>>, accounts |-> <<>>,
                             address_table_lookups |-> <<>>])} })

RECURSIVE instructions_loop(_, _, _)
instructions_loop(message, at, acc) ==
    IF at > Len(message.instructions) THEN Ok(acc, <<>>)
    ELSE The({
        IF ~IsOk(r) THEN r
        ELSE instructions_loop(message, at + 1,
                [instructions |-> Append(acc.instructions, r.val.inst),
                 transfers |-> acc.transfers \o r.val.transfers,
                 spl_transfers |-> acc.spl_transfers \o r.val.spl_transfers])
        : r \in {process_instruction(message, message.instructions[at])} })

all_instructions_and_transfers(message) ==
    instructions_loop(message, 1,
                      [instructions |-> <<>>, transfers |-> <<>>, spl_transfers |-> <<>>])

all_account_key_strings(message) ==
    [k \in 1..Len(static_account_keys(message)) |-> to_string(static_account_keys(message)[k])]

RECURSIVE all_invoked_programs_loop(_, _)
all_invoked_programs_loop(message, i) ==
    IF i >= Len(static_account_keys(message)) THEN <<>>
    ELSE (IF is_invoked(message, i) THEN <<to_string(At(static_account_keys(message), i))>> ELSE <<>>)
         \o all_invoked_programs_loop(message, i + 1)

all_invoked_programs_by_instruction(message) ==
    [k \in 1..Len(message.instructions) |->
        to_string(At(static_account_keys(message), message.instructions[k].program_id_index))]
all_invoked_programs(message) == all_invoked_programs_loop(message, 0)

address_table_lookups_of(message) ==
    IF message.version = "v0"
    THEN [k \in 1..Len(message.address_table_lookups) |->
            [address_table_key |-> to_string(message.address_table_lookups[k].account_key),
             writable_indexes |-> message.address_table_lookups[k].writable_indexes,
             readonly_indexes |-> message.address_table_lookups[k].readonly_indexes]]
    ELSE <<>>

signatures_of_uppercase(sigs) ==
    [k \in 1..Len(sigs) |->
        [i \in 1..(2 * Len(sigs[k])) |->
            IF i % 2 = 1 THEN HexUpper[(sigs[k][(i + 1) \div 2] \div 16) + 1]
                         ELSE HexUpper[(sigs[k][i \div 2] % 16) + 1]]]
signatures_of(sigs) == [k \in 1..Len(sigs) |-> HexEncode(sigs[k])]

transaction_metadata(message, sigs) ==
    The({
        IF ~IsOk(r) THEN r
        ELSE Ok([signatures |-> signatures_of(sigs),
                 account_keys |-> all_account_key_strings(message),
                 address_table_lookups |-> address_table_lookups_of(message),
                 recent_blockhash |-> to_string(message.recent_blockhash),
                 program_keys |-> all_invoked_programs(message),
                 instructions |-> r.val.instructions,
                 transfers |-> r.val.transfers,
                 spl_transfers |-> r.val.spl_transfers], <<>>)
        : r \in {all_instructions_and_transfers(message)} })

(***************************************************************************)
(* Inputs: serialized messages and transactions                            *)
(***************************************************************************)
MaxStatic == 2      \* static keys in the lookup-resolution inputs
MaxLookups == 2     \* address table lookups per message
MaxIdx == 3         \* lookup indexes (writable plus readonly) per message
MaxHdr == 2         \* header counts
MaxHdrKeys == 2     \* static keys in the header inputs
MaxSigs == 2        \* signatures in the envelope
MaxInsts == 2       \* instructions per message in the native-program inputs

EncodeCompactU16(n) ==
    IF n < 128 THEN <<n>>
    ELSE IF n < 16384 THEN <<128 + (n % 128), n \div 128>>
    ELSE <<128 + (n % 128), 128 + ((n \div 128) % 128), n \div 16384>>

SerInstruction(i) ==
    <<i.program_id_index>> \o EncodeCompactU16(Len(i.accounts)) \o i.accounts
        \o EncodeCompactU16(Len(i.data)) \o i.data

SerLookup(l) ==
    l.account_key \o EncodeCompactU16(Len(l.writable_indexes)) \o l.writable_indexes
        \o EncodeCompactU16(Len(l.readonly_indexes)) \o l.readonly_indexes

SerMessage(m) ==
    (IF m.version = "v0" THEN <<V0_TRANSACTION_INDICATOR>> ELSE <<>>)
    \o <<m.header.num_required_signatures, m.header.num_readonly_signed_accounts,
         m.header.num_readonly_unsigned_accounts>>
    \o <<Len(m.account_keys)>> \o Flatten(m.account_keys)
    \o m.recent_blockhash
    \o <<Len(m.instructions)>> \o Flatten([k \in 1..Len(m.instructions) |-> SerInstruction(m.instructions[k])])
    \o (IF m.version = "v0"
        THEN <<Len(m.address_table_lookups)>>
             \o Flatten([k \in 1..Len(m.address_table_lookups) |-> SerLookup(m.address_table_lookups[k])])
        ELSE <<>>)

SignatureBytes(k) == [i \in 1..LEN_SOL_SIGNATURE_BYTES |-> (k * 37 + i * 3) % 256]

SerTransaction(n, m) ==
    <<n>> \o Flatten([k \in 1..n |-> SignatureBytes(k)]) \o SerMessage(m)

Header(rs, ros, ru) ==
    [num_required_signatures |-> rs, num_readonly_signed_accounts |-> ros,
     num_readonly_unsigned_accounts |-> ru]

Message(version, header, keys, insts, lookups) ==
    IF version = "v0" THEN VersionZeroMessage(header, keys, BlockHashBytes, insts, lookups)
    ELSE LegacyMessage(header, keys, BlockHashBytes, insts)

Instruction(p, accounts, data) == [program_id_index |-> p, accounts |-> accounts, data |-> data]

UserKeys(n) == [k \in 1..n |-> UserKeyBytes(k)]

Versions == {"legacy", "v0"}

(* Lookups of the given (writable, readonly) lengths; every index byte is  *)
(* different, so a resolved reference names its position.                  *)
LookupOf(k, shape) ==
    [account_key |-> TableKeyBytes(k),
     writable_indexes |-> [p \in 1..shape[1] |-> 10 * k + p],
     readonly_indexes |-> [p \in 1..shape[2] |-> 100 + 10 * k + p]]

(* (writable, readonly) lengths of one lookup *)
LookupShapes == {t \in (0..MaxIdx) \X (0..MaxIdx) : t[1] + t[2] <= MaxIdx}

RECURSIVE SeqsUpTo(_, _)
SeqsUpTo(S, n) ==
    IF n = 0 THEN {<<>>}
    ELSE LET shorter == SeqsUpTo(S, n - 1)
         IN shorter \cup {Append(q, x) : q \in {r \in shorter : Len(r) = n - 1}, x \in S}

RECURSIVE ShapeTotal(_)
ShapeTotal(shapes) ==
    IF shapes = <<>> THEN 0 ELSE Head(shapes)[1] + Head(shapes)[2] + ShapeTotal(Tail(shapes))

(* Up to MaxLookups lookups that hold at most MaxIdx indexes together *)
LookupConfigs ==
    {[k \in 1..Len(shapes) |-> LookupOf(k, shapes[k])] :
        shapes \in {q \in SeqsUpTo(LookupShapes, MaxLookups) : ShapeTotal(q) <= MaxIdx}}

TotalIndexes(lookups) ==
    SumLens([k \in 1..Len(lookups) |-> lookups[k].writable_indexes])
    + SumLens([k \in 1..Len(lookups) |-> lookups[k].readonly_indexes])

(* One instruction to a user program with a single account index that     *)
(* ranges over the static keys, the lookup bands and the first two indexes *)
(* past them.                                                              *)
LookupMessages ==
    {Message("v0", Header(1, 0, 0), UserKeys(S), <<Instruction(0, <<i>>, <<>>)>>, ls) :
        <<S, ls, i>> \in {t \in (1..MaxStatic) \X LookupConfigs \X (0..(MaxStatic + MaxIdx + 1)) :
                             t[3] <= t[1] + TotalIndexes(t[2]) + 1}}
    \cup
    {Message("legacy", Header(1, 0, 0), UserKeys(S), <<Instruction(0, <<i>>, <<>>)>>, <<>>) :
        <<S, i>> \in {t \in (1..MaxStatic) \X (0..(MaxStatic + 1)) : t[2] <= t[1] + 1}}

(* Every header over a few key lists (with and without the upgradeable     *)
(* loader), one instruction that lists every static index and calls the    *)
(* key at p, p = |keys| included.                                          *)
HeaderKeyLists ==
    {UserKeys(n) : n \in 0..MaxHdrKeys}
    \cup {Append(UserKeys(n - 1), UpgradeableLoaderKeyBytes) : n \in 1..MaxHdrKeys}

HeaderMessages ==
    {Message(v, Header(rs, ros, ru), keys,
             <<Instruction(p, [k \in 1..Len(keys) |-> k - 1], <<>>)>>, <<>>) :
        <<v, rs, ros, ru, keys, p>> \in
            {t \in Versions \X ((0..MaxHdr) \cup {129}) \X (0..MaxHdr) \X (0..MaxHdr)
                    \X HeaderKeyLists \X (0..MaxHdrKeys) : t[6] <= Len(t[5])}}

(* Native-program instructions, well-formed and not *)
NativeKeys == <<UserKeyBytes(1), UserKeyBytes(2), SystemKeyBytes, TokenKeyBytes, Token2022KeyBytes>>
InstructionPool ==
    { Instruction(2, <<0, 1>>, <<2, 0, 0, 0, 111, 0, 0, 0, 0, 0, 0, 0>>),   \* System transfer
      Instruction(2, <<0>>, <<2, 0, 0, 0, 111, 0, 0, 0, 0, 0, 0, 0>>),      \* ... with one account
      Instruction(2, <<0, 1>>, <<2, 0>>),                                  \* System, truncated
      Instruction(2, <<0>>, <<4, 0, 0, 0>>),                               \* AdvanceNonceAccount
      Instruction(3, <<0, 1, 0>>, <<3, 44, 1, 0, 0, 0, 0, 0, 0>>),          \* Token transfer
      Instruction(3, <<0>>, <<3, 44, 1, 0, 0, 0, 0, 0, 0>>),                \* ... too few accounts
      Instruction(4, <<0, 1, 1, 0, 1>>, <<12, 7, 0, 0, 0, 0, 0, 0, 0, 6>>), \* Token-2022 checked
      Instruction(0, <<1>>, <<9, 9>>),                                     \* a user program
      Instruction(0, <<9>>, <<>>),                                         \* unresolvable account
      Instruction(7, <<0>>, <<>>),                                         \* program index past the keys
      Instruction(2, <<0, 1, 0>>, <<2, 0, 0, 0, 111, 0, 0, 0, 0, 0, 0, 0>>),   \* System transfer, three accounts
      Instruction(2, <<1, 0>>, <<2, 0, 0, 0, 0, 1, 0, 0, 0, 0, 0, 0, 9>>),     \* ... with a trailing byte
      Instruction(3, <<0, 1, 0, 1, 1>>, <<3, 44, 1, 0, 0, 0, 0, 0, 0>>),       \* Token transfer, two signers
      Instruction(4, <<1, 0, 1>>, <<3, 5, 0, 0, 0, 0, 0, 0, 0>>),              \* Token-2022 transfer
      Instruction(3, <<1, 0, 0, 1>>, <<12, 7, 0, 0, 0, 0, 0, 0, 0, 6>>),       \* Token checked
      Instruction(4, <<0, 1, 0>>, <<12, 7, 0, 0, 0, 0, 0, 0, 0, 6>>),          \* ... too few accounts
      Instruction(4, <<0, 1, 1, 0, 1>>,
                  <<26, 1, 7, 0, 0, 0, 0, 0, 0, 0, 6, 2, 0, 0, 0, 0, 0, 0, 0>>), \* Token-2022 checked with fee
      Instruction(3, <<0, 1, 0>>,
                  <<26, 1, 7, 0, 0, 0, 0, 0, 0, 0, 6, 2, 0, 0, 0, 0, 0, 0, 0>>), \* ... too few accounts
      Instruction(3, <<1, 0, 1, 0>>,
                  <<26, 1, 7, 0, 0, 0, 0, 0, 0, 0, 6, 2, 0, 0, 0, 0, 0, 0, 0>>), \* Token checked with fee
      Instruction(3, <<0, 1>>, <<7, 1>>),                                  \* Token, another tag
      Instruction(4, <<>>, <<26, 0, 5>>),                                  \* Token-2022, another sub-tag
      Instruction(3, <<0>>, <<26>>),                                       \* Token, sub-tag missing
      Instruction(4, <<0, 1, 0>>, <<3, 5, 0>>) }                           \* Token-2022, amount cut

(* The instructions that follow the first one of a message *)
FollowUps ==
    { Instruction(2, <<1, 0>>, <<2, 0, 0, 0, 44, 1, 0, 0, 0, 0, 0, 0>>),   \* System transfer
      Instruction(3, <<1, 0, 1>>, <<3, 7, 0, 0, 0, 0, 0, 0, 0>>),          \* Token transfer
      Instruction(0, <<0, 9>>, <<>>),                                     \* unresolvable account
      Instruction(7, <<0>>, <<>>) }                                       \* program index past the keys

InstructionLists ==
    {<<>>} \cup {<<a>> \o q : a \in InstructionPool, q \in SeqsUpTo(FollowUps, MaxInsts - 1)}

NativeMessages ==
    {Message(v, Header(1, 0, 3), NativeKeys, insts, <<>>) :
        <<v, insts>> \in Versions \X InstructionLists}

(* Native-program and user-program instructions of a v0 message whose      *)
(* account indexes mix static keys (0..4) and lookup references (5, 6)     *)
LookupInstructions ==
    { Instruction(2, <<0, 5>>, <<2, 0, 0, 0, 111, 0, 0, 0, 0, 0, 0, 0>>),  \* System transfer to a lookup
      Instruction(3, <<5, 1, 0, 6>>, <<3, 44, 1, 0, 0, 0, 0, 0, 0>>),      \* Token transfer, lookup signer
      Instruction(4, <<0, 5, 6, 1>>, <<12, 7, 0, 0, 0, 0, 0, 0, 0, 6>>),   \* Token-2022 checked, lookup mint
      Instruction(3, <<1, 6, 0, 5, 0>>,
                  <<26, 1, 7, 0, 0, 0, 0, 0, 0, 0, 6, 2, 0, 0, 0, 0, 0, 0, 0>>), \* Token with fee, lookup owner
      Instruction(0, <<5, 0, 6, 1, 5, 0>>, <<8>>),                        \* user program, mixed indexes
      Instruction(1, <<6, 5>>, <<>>),                                     \* user program, lookups only
      Instruction(0, <<1, 6, 7>>, <<>>) }                                 \* ... with an unresolvable index

NativeLookupMessages ==
    {Message("v0", Header(1, 0, 3), NativeKeys, insts, <<LookupOf(1, <<1, 1>>)>>) :
        insts \in {<<a>> : a \in LookupInstructions}
                 \cup {<<a, b>> : a \in LookupInstructions, b \in LookupInstructions}}

(* Instructions to the System program whose tag is not 2, with and without *)
(* the fields of their variant                                             *)
OtherSystemInstructions ==
    { Instruction(2, <<0, 1>>, <<0, 0, 0, 0>> \o Repeat(1, 48)),           \* CreateAccount
      Instruction(2, <<0, 1>>, <<0, 0, 0, 0, 1, 2>>),                      \* ... cut in its fields
      Instruction(2, <<0>>, <<8, 0, 0, 0, 16, 0, 0, 0, 0, 0, 0, 0, 9, 9>>), \* Allocate, bytes after it
      Instruction(2, <<>>, <<12, 0, 0, 0>>),                               \* UpgradeNonceAccount
      Instruction(2, <<0, 1, 0>>,
                  <<11, 0, 0, 0, 111, 0, 0, 0, 0, 0, 0, 0, 1, 0, 0, 0, 0, 0, 0, 0, 97>>
                  \o Repeat(1, 32)),                                       \* TransferWithSeed
      Instruction(2, <<0, 1>>, <<13, 0, 0, 0>>),                           \* the tag after the last variant
      Instruction(2, <<0, 1>>, <<2, 1, 0, 0, 111, 0, 0, 0, 0, 0, 0, 0>>),   \* tag 258
      Instruction(2, <<0, 1>>, <<255, 255, 255, 255, 0>>) }                \* tag 2^32 - 1

SystemMessages ==
    {Message("legacy", Header(1, 0, 3), NativeKeys, insts, <<>>) :
        insts \in {<<a>> : a \in OtherSystemInstructions}
                 \cup {<<a, Instruction(2, <<1, 0>>, <<2, 0, 0, 0, 44, 1, 0, 0, 0, 0, 0, 0>>)>> :
                            a \in OtherSystemInstructions}}

(* Instructions to the token programs whose data is one of three transfer  *)
(* payloads, cut at every length after its tag or extended by two bytes;   *)
(* the shortest cuts also come with too few accounts                       *)
SplPayloads ==
    { <<3, 44, 1, 0, 0, 0, 0, 0, 0>>,
      <<12, 7, 0, 0, 0, 0, 0, 0, 0, 6>>,
      <<26, 1, 7, 0, 0, 0, 0, 0, 0, 0, 6, 2, 0, 0, 0, 0, 0, 0, 0>> }
SplDataCuts ==
    UNION {{Take(d, n) : n \in (IF d[1] = 26 THEN 2 ELSE 1)..Len(d)} : d \in SplPayloads}
    \cup {d \o <<9, 9>> : d \in SplPayloads}
SplDataInstructions ==
    {Instruction(IF d[1] = 26 THEN 4 ELSE 3, <<0, 1, 0, 1>>, d) : d \in SplDataCuts}
    \cup {Instruction(3, <<0>>, Take(d, Len(d) - 1)) : d \in SplPayloads}
SplDataMessages ==
    {Message("legacy", Header(1, 0, 3), NativeKeys, <<a>>, <<>>) : a \in SplDataInstructions}

(* Two messages that are cut at every length, extended by extra bytes and  *)
(* wrapped in envelopes of 0..MaxSigs signatures.                          *)
BaseLegacy ==
    Message("legacy", Header(1, 0, 1), <<UserKeyBytes(1), UserKeyBytes(2), SystemKeyBytes>>,
            <<Instruction(2, <<0, 1>>, <<2, 0, 0, 0, 111, 0, 0, 0, 0, 0, 0, 0>>)>>, <<>>)
BaseV0 ==
    Message("v0", Header(1, 0, 1), <<UserKeyBytes(1), UserKeyBytes(2)>>,
            <<Instruction(1, <<0, 2, 3>>, <<5>>)>>, <<LookupOf(1, <<1, 1>>)>>)
BaseHighSigners ==
    Message("legacy", Header(129, 0, 0), <<UserKeyBytes(1)>>, <<>>, <<>>)
BaseMessages == {BaseLegacy, BaseV0, BaseHighSigners}

Payloads ==
    {SerMessage(m) : m \in BaseMessages}
    \cup {SerTransaction(n, m) : n \in 0..MaxSigs, m \in BaseMessages}

ExtraBytes == {<<0>>, <<7, 7>>}

MutatedBuffers ==
    UNION {{Take(b, t) : t \in 0..Len(b)} : b \in Payloads}
    \cup {b \o x : b \in Payloads, x \in ExtraBytes}

StructuredBuffers ==
    {SerMessage(m) : m \in LookupMessages \cup HeaderMessages \cup NativeMessages
                            \cup NativeLookupMessages \cup SystemMessages
                            \cup SplDataMessages}

(* Text that is not the hex form of a buffer *)
RawTexts ==
    { <<"0">>, <<"z", "z">>, <<"0", "0", "g", "1">>, <<"+", "f">>, <<"F", "f">>,
      <<"utf8-lead", "utf8-cont">>, <<"a", "utf8-lead", "utf8-cont", "b">>,
      <<"0", "0", "a", "utf8-lead", "utf8-cont", "b">>,
      <<"z", "z", "a", "utf8-lead", "utf8-cont", "b">> }

Inputs ==
    ({HexEncode(b) : b \in MutatedBuffers} \cup RawTexts) \X BOOLEAN
    \cup {HexEncode(b) : b \in StructuredBuffers} \X {FALSE}
    \cup {HexEncode(SerTransaction(1, m)) : m \in {n \in NativeMessages : n.version = "legacy"}} \X {TRUE}

(***************************************************************************)
(* State: SolanaTransaction::new, section by section, followed by          *)
(* transaction_metadata                                                    *)
(***************************************************************************)
VARIABLES
    unsigned_tx,        \* the text given to SolanaTransaction::new
    full_transaction,   \* the mode flag
    pc,                 \* the position in parse_solana_transaction
    unsigned_tx_bytes,  \* the decoded buffer
    tx_body_remainder,  \* the bytes not yet parsed
    signatures,         \* the signature envelope
    message,            \* the sections parsed so far
    result,             \* what SolanaTransaction::new returned
    metadata            \* what transaction_metadata returned

(* The IDL decoder (idl_parser.rs): one IDL, one instruction call *)
VARIABLES
    idl_in,             \* the instructions and types arrays of the uploaded IDL
    idl_data,           \* the instruction call data
    idl_accounts,       \* the account references of the instruction
    idl_pc,             \* the position in the sequence of calls
    idl_loaded,         \* what decode_idl_data returned
    idl_found,          \* what find_instruction_by_discriminator returned
    idl_args,           \* what parse_data_into_args returned
    idl_accounts_map    \* what create_accounts_map returned

(* The EVM call data decoder (main.rs): one ABI, one call *)
VARIABLES
    abi,                \* the functions of the ABI
    tx_data,            \* the call data
    evm_pc,             \* the position in decode_transaction
    function,           \* the function found by its selector
    offset,             \* the offset of the next head word in the input data
    parameters,         \* the parameters decoded so far
    decoded             \* what decode_transaction returned

solana_vars == <<unsigned_tx, full_transaction, pc, unsigned_tx_bytes, tx_body_remainder,
                 signatures, message, result, metadata>>
idl_vars == <<idl_in, idl_data, idl_accounts, idl_pc, idl_loaded, idl_found, idl_args,
              idl_accounts_map>>
evm_vars == <<abi, tx_data, evm_pc, function, offset, parameters, decoded>>

vars == <<solana_vars, idl_vars, evm_vars>>

Pending == [tag |-> "Pending"]

(* The decoders that a run does not exercise *)
IdlIdle ==
    /\ idl_in = <<>>
    /\ idl_data = <<>>
    /\ idl_accounts = <<>>
    /\ idl_pc = "idle"
    /\ idl_loaded = Pending
    /\ idl_found = Pending
    /\ idl_args = Pending
    /\ idl_accounts_map = Pending

EvmIdle ==
    /\ abi = <<>>
    /\ tx_data = <<>>
    /\ evm_pc = "idle"
    /\ function = Pending
    /\ offset = 0
    /\ parameters = <<>>
    /\ decoded = Pending
EmptyMessage == LegacyMessage(Header(0, 0, 0), <<>>, <<>>, <<>>)

Init ==
    /\ \E in \in Inputs : unsigned_tx = in[1] /\ full_transaction = in[2]
    /\ pc = "new"
    /\ unsigned_tx_bytes = <<>>
    /\ tx_body_remainder = <<>>
    /\ signatures = <<>>
    /\ message = EmptyMessage
    /\ result = Pending
    /\ metadata = Pending
    /\ IdlIdle
    /\ EvmIdle

(* The error of a body section as parse_solana_transaction returns it *)
WrapBodyError(full, version, e) ==
    IF full THEN WrapFullTransaction(e)
    ELSE IF version = "v0" THEN WrapMessageV0(e)
    ELSE WrapMessageLegacy(e)

Fail(r) ==
    /\ result' = r
    /\ pc' = IF IsPanic(r) THEN "panicked" ELSE "failed"

FailBody(r) == Fail(Err(WrapBodyError(full_transaction, message.version, r.msg)))

(* parser.rs 62-69 *)
DecodeHex ==
    /\ pc = "new"
    /\ LET r == hex_to_bytes(unsigned_tx)
       IN IF IsOk(r)
          THEN /\ unsigned_tx_bytes' = r.val
               /\ tx_body_remainder' = r.val
               /\ pc' = IF full_transaction THEN "signatures" ELSE "version"
               /\ UNCHANGED result
          ELSE /\ Fail(r)
               /\ UNCHANGED <<unsigned_tx_bytes, tx_body_remainder>>
    /\ UNCHANGED <<unsigned_tx, full_transaction, signatures, message, metadata>>
    /\ UNCHANGED <<idl_vars, evm_vars>>

(* parser.rs 72 *)
ParseSignatures ==
    /\ pc = "signatures"
    /\ LET r == parse_signatures(unsigned_tx_bytes)
       IN IF IsOk(r)
          THEN /\ signatures' = r.val
               /\ tx_body_remainder' = r.rest
               /\ pc' = "version"
               /\ UNCHANGED result
          ELSE /\ Fail(r)
               /\ UNCHANGED <<signatures, tx_body_remainder>>
    /\ UNCHANGED <<unsigned_tx, full_transaction, unsigned_tx_bytes, message, metadata>>
    /\ UNCHANGED <<idl_vars, evm_vars>>

(* parser.rs 73-75 and 79-81: the match on the first byte of the body *)
IsV0ByTopBit(first_byte) == first_byte >= V0_TRANSACTION_INDICATOR
IsV0(first_byte) == first_byte = V0_TRANSACTION_INDICATOR

DetectVersion ==
    /\ pc = "version"
    /\ IF tx_body_remainder = <<>>
       THEN /\ Fail(Panic("index out of bounds: the len is 0 but the index is 0"))
            /\ UNCHANGED <<tx_body_remainder, message>>
       ELSE IF IsV0(tx_body_remainder[1])
       THEN /\ message' = [message EXCEPT !.version = "v0"]
            /\ tx_body_remainder' = Drop(tx_body_remainder, LEN_ARRAY_HEADER_BYTES)
            /\ pc' = "header"
            /\ UNCHANGED result
       ELSE /\ message' = [message EXCEPT !.version = "legacy"]
            /\ pc' = "header"
            /\ UNCHANGED <<tx_body_remainder, result>>
    /\ UNCHANGED <<unsigned_tx, full_transaction, unsigned_tx_bytes, signatures, metadata>>
    /\ UNCHANGED <<idl_vars, evm_vars>>

(* One section of parse_solana_legacy_transaction / parse_solana_v0_transaction *)
Section(at, r, field, next) ==
    /\ pc = at
    /\ IF IsOk(r)
       THEN /\ message' = [message EXCEPT ![field] = r.val]
            /\ tx_body_remainder' = r.rest
            /\ pc' = next
            /\ UNCHANGED result
       ELSE /\ FailBody(r)
            /\ UNCHANGED <<message, tx_body_remainder>>
    /\ UNCHANGED <<unsigned_tx, full_transaction, unsigned_tx_bytes, signatures, metadata>>
    /\ UNCHANGED <<idl_vars, evm_vars>>

ParseHeader == Section("header", parse_header(tx_body_remainder), "header", "accounts")
ParseAccounts == Section("accounts", parse_accounts(tx_body_remainder), "account_keys", "block_hash")
ParseBlockHash ==
    Section("block_hash", parse_block_hash(tx_body_remainder), "recent_blockhash", "instructions")
ParseInstructions ==
    Section("instructions", parse_instructions(tx_body_remainder), "instructions",
            IF message.version = "v0" THEN "lookups" ELSE "end")
ParseAddressTableLookups ==
    Section("lookups", parse_address_table_lookups(tx_body_remainder), "address_table_lookups", "end")

(* The check of the remainder and the construction of SolanaTransaction *)
EndCheckPaddingAccepted(remainder, version) ==
    IF \E k \in 1..Len(remainder) : remainder[k] # 0
    THEN Err(IF version = "v0" THEN ErrV0Extraneous ELSE ErrLegacyExtraneous)
    ELSE Ok(TRUE, <<>>)
EndCheck(remainder, version) ==
    IF remainder # <<>>
    THEN Err(IF version = "v0" THEN ErrV0Extraneous ELSE ErrLegacyExtraneous)
    ELSE Ok(TRUE, <<>>)

CheckEnd ==
    /\ pc = "end"
    /\ LET r == EndCheck(tx_body_remainder, message.version)
       IN IF IsOk(r)
          THEN /\ result' = Ok(TRUE, <<>>)
               /\ pc' = "constructed"
          ELSE FailBody(r)
    /\ UNCHANGED <<unsigned_tx, full_transaction, unsigned_tx_bytes, tx_body_remainder,
                   signatures, message, metadata>>
    /\ UNCHANGED <<idl_vars, evm_vars>>

TransactionMetadata ==
    /\ pc = "constructed"
    /\ metadata' = transaction_metadata(message, signatures)
    /\ pc' = "done"
    /\ UNCHANGED <<unsigned_tx, full_transaction, unsigned_tx_bytes, tx_body_remainder,
                   signatures, message, result>>
    /\ UNCHANGED <<idl_vars, evm_vars>>

Next ==
    \/ DecodeHex
    \/ ParseSignatures
    \/ DetectVersion
    \/ ParseHeader
    \/ ParseAccounts
    \/ ParseBlockHash
    \/ ParseInstructions
    \/ ParseAddressTableLookups
    \/ CheckEnd
    \/ TransactionMetadata

Spec == Init /\ [][Next]_vars

TypeOK ==
    /\ pc \in {"new", "signatures", "version", "header", "accounts", "block_hash",
               "instructions", "lookups", "end", "constructed", "done", "failed", "panicked",
               "compact", "compact_done"}
    /\ full_transaction \in BOOLEAN

(***************************************************************************)
(* read_compact_u16 on its own: one call on a byte sequence                *)
(***************************************************************************)
MaxCompactLen == 4  \* bytes given to read_compact_u16

CompactBytes == {0, 1, 3, 4, 5, 127, 128, 129, 252, 255}
CompactInputs == SeqsUpTo(CompactBytes, MaxCompactLen)

InitCompact ==
    /\ tx_body_remainder \in CompactInputs
    /\ pc = "compact"
    /\ unsigned_tx = <<>>
    /\ full_transaction = FALSE
    /\ unsigned_tx_bytes = <<>>
    /\ signatures = <<>>
    /\ message = EmptyMessage
    /\ result = Pending
    /\ metadata = Pending
    /\ IdlIdle
    /\ EvmIdle

ReadCompactU16 ==
    /\ pc = "compact"
    /\ result' = read_compact_u16(tx_body_remainder)
    /\ pc' = "compact_done"
    /\ UNCHANGED <<unsigned_tx, full_transaction, unsigned_tx_bytes, tx_body_remainder,
                   signatures, message, metadata>>
    /\ UNCHANGED <<idl_vars, evm_vars>>

NextCompact == ReadCompactU16

SpecCompact == InitCompact /\ [][NextCompact]_vars

(***************************************************************************)
(* Properties                                                              *)
(***************************************************************************)
HasToken(msg, t) == \E i \in 1..Len(msg) : msg[i] = t

(* The logical lookup array: every writable index of every lookup, in      *)
(* lookup order, then every readonly index in the same order               *)
Band(lookups, writable) ==
    Flatten([k \in 1..Len(lookups) |->
        [p \in 1..Len(IF writable THEN lookups[k].writable_indexes ELSE lookups[k].readonly_indexes) |->
            [address_table_key |-> to_string(lookups[k].account_key),
             index |-> IF writable THEN lookups[k].writable_indexes[p]
                       ELSE lookups[k].readonly_indexes[p],
             writable |-> writable]]])

LogicalLookupArray(m) == Band(m.address_table_lookups, TRUE) \o Band(m.address_table_lookups, FALSE)

(* The references of the account indexes at or past the static keys; an    *)
(* index past the lookups has none                                         *)
Unresolved == [address_table_key |-> <<>>, index |-> -1, writable |-> FALSE]

RECURSIVE LookupRefs(_, _)
LookupRefs(m, accounts) ==
    IF accounts = <<>> THEN <<>>
    ELSE (IF Head(accounts) < Len(m.account_keys) THEN <<>>
          ELSE IF Head(accounts) - Len(m.account_keys) < Len(LogicalLookupArray(m))
          THEN <<LogicalLookupArray(m)[Head(accounts) - Len(m.account_keys) + 1]>>
          ELSE <<Unresolved>>) \o LookupRefs(m, Tail(accounts))

Resolves(m, i) ==
    \/ i < Len(m.account_keys)
    \/ m.version = "v0" /\ i - Len(m.account_keys) < Len(LogicalLookupArray(m))

AllResolve(m, k) == \A p \in 1..Len(m.instructions[k].accounts) : Resolves(m, m.instructions[k].accounts[p])

(* C1: in a v0 message with S static keys, resolve_address_table_lookup(i) *)
(* for i >= S and j = i - S returns entry j of W1 ++ .. ++ Wn ++ R1 ++ ..  *)
(* ++ Rn: the owning lookup's table key, the index byte at that position   *)
(* and writable = TRUE in the writable band, FALSE in the readonly band;   *)
(* the metadata lists these references per instruction.                    *)
C1_LookupResolution ==
    (pc = "done" /\ message.version = "v0") =>
        \A k \in 1..Len(message.instructions) :
            /\ \A p \in 1..Len(message.instructions[k].accounts) :
                 LET i == message.instructions[k].accounts[p]
                     j == i - Len(message.account_keys)
                 IN (j >= 0 /\ j < Len(LogicalLookupArray(message))) =>
                        /\ resolve_address_table_lookup(message, i)
                               = Ok(LogicalLookupArray(message)[j + 1], <<>>)
                        /\ LogicalLookupArray(message)[j + 1].writable
                               = (j < Len(Band(message.address_table_lookups, TRUE)))
            /\ IsOk(metadata) =>
                 metadata.val.instructions[k].address_table_lookups
                     = LookupRefs(message, message.instructions[k].accounts)

(* A reference into the readonly band of the second lookup, behind a first *)
(* lookup whose writable and readonly lengths differ                       *)
C1_Witness ==
    /\ pc = "done"
    /\ message.version = "v0"
    /\ IsOk(metadata)
    /\ Len(message.address_table_lookups) >= 2
    /\ Len(message.address_table_lookups[1].writable_indexes)
           # Len(message.address_table_lookups[1].readonly_indexes)
    /\ Len(message.address_table_lookups[2].readonly_indexes) >= 1
    /\ Len(message.instructions) = 1
    /\ Len(metadata.val.instructions[1].address_table_lookups) = 1
    /\ metadata.val.instructions[1].address_table_lookups[1]
           = [address_table_key |-> to_string(message.address_table_lookups[2].account_key),
              index |-> message.address_table_lookups[2].readonly_indexes[1],
              writable |-> FALSE]

(* The header rule of the writable flag *)
HeaderWritable(m, i) ==
    \/ i < m.header.num_required_signatures - m.header.num_readonly_signed_accounts
    \/ /\ m.header.num_required_signatures <= i
       /\ i < Len(m.account_keys) - m.header.num_readonly_unsigned_accounts

UsedAsProgramId(m, i) == \E k \in 1..Len(m.instructions) : m.instructions[k].program_id_index = i

LoaderAmongStaticKeys(m) == \E k \in 1..Len(m.account_keys) : m.account_keys[k] = UpgradeableLoaderKeyBytes

(* The accounts an instruction emits, given the rule of the writable flag *)
RECURSIVE EmittedAccounts(_, _, _)
EmittedAccounts(m, accounts, demotion) ==
    IF accounts = <<>> THEN <<>>
    ELSE (IF Head(accounts) < Len(m.account_keys)
          THEN <<[account_key |-> to_string(m.account_keys[Head(accounts) + 1]),
                  signer |-> Head(accounts) < m.header.num_required_signatures,
                  writable |-> /\ HeaderWritable(m, Head(accounts))
                               /\ ~(/\ demotion
                                    /\ UsedAsProgramId(m, Head(accounts))
                                    /\ ~LoaderAmongStaticKeys(m))]>>
          ELSE <<>>) \o EmittedAccounts(m, Tail(accounts), demotion)

(* C2 as amended: every emitted static account has signer = (i < required  *)
(* signatures) and writable = the header rule AND NOT (the key at i is the  *)
(* program id of some instruction and the BPF upgradeable loader is not    *)
(* among the static keys).                                                 *)
C2_AccountFlags ==
    (pc = "done" /\ IsOk(metadata)) =>
        \A k \in 1..Len(message.instructions) :
            metadata.val.instructions[k].accounts
                = EmittedAccounts(message, message.instructions[k].accounts, TRUE)

(* C2 as stated: writable is the header rule alone, also for a key that is *)
(* used as a program id                                                    *)
C2_AccountFlags_AsStated ==
    (pc = "done" /\ IsOk(metadata)) =>
        \A k \in 1..Len(message.instructions) :
            metadata.val.instructions[k].accounts
                = EmittedAccounts(message, message.instructions[k].accounts, FALSE)

(* A key that the header makes writable, that an instruction lists as an   *)
(* account and calls as its program: it is emitted as not writable         *)
C2_Witness ==
    /\ pc = "done"
    /\ IsOk(metadata)
    /\ \E k \in 1..Len(message.instructions) :
         \E p \in 1..Len(metadata.val.instructions[k].accounts) :
            /\ message.instructions[k].accounts[p] = message.instructions[k].program_id_index
            /\ \A q \in 1..Len(message.instructions[k].accounts) :
                   message.instructions[k].accounts[q] < Len(message.account_keys)
            /\ HeaderWritable(message, message.instructions[k].program_id_index)
            /\ ~LoaderAmongStaticKeys(message)
            /\ metadata.val.instructions[k].accounts[p].signer
            /\ ~metadata.val.instructions[k].accounts[p].writable

(* C3 as amended: when some account index of some instruction does not    *)
(* resolve, no metadata is returned; the call returns the out-of-bounds    *)
(* error when every instruction before the first one with such an index is *)
(* processed without ending the call.                                      *)
C3_AccountIndexTotality ==
    pc = "done" =>
        /\ IsOk(metadata) => \A k \in 1..Len(message.instructions) : AllResolve(message, k)
        /\ \A k \in 1..Len(message.instructions) :
             (/\ ~AllResolve(message, k)
              /\ \A h \in 1..(k - 1) : IsOk(process_instruction(message, message.instructions[h])))
             => (IsErr(metadata) /\ HasToken(metadata.msg, "out of bounds"))

(* C3 as stated, on the calls that return: an index that does not resolve  *)
(* makes the call return the out-of-bounds error                           *)
C3_AccountIndexTotality_AsStated ==
    (/\ pc = "done"
     /\ ~IsPanic(metadata)
     /\ \E k \in 1..Len(message.instructions) : ~AllResolve(message, k))
        => (IsErr(metadata) /\ HasToken(metadata.msg, "out of bounds"))

(* A second instruction with an index that does not resolve, behind a      *)
(* first instruction that is processed                                     *)
C3_Witness ==
    /\ pc = "done"
    /\ Len(message.instructions) >= 2
    /\ AllResolve(message, 1)
    /\ IsOk(process_instruction(message, message.instructions[1]))
    /\ ~AllResolve(message, 2)
    /\ IsErr(metadata)
    /\ HasToken(metadata.msg, "out of bounds")

IsSuffix(rest, bytes) ==
    Len(rest) <= Len(bytes) /\ rest = Drop(bytes, Len(bytes) - Len(rest))

(* C4: once every section is parsed, the parse succeeds exactly when no    *)
(* byte remains; a remainder of one or more bytes is rejected with the     *)
(* 'extraneous bytes at the end' error; the remainder is always a suffix   *)
(* of the buffer, so a success has consumed exactly the buffer.            *)
C4_ExhaustiveConsumption ==
    [][ /\ pc = "end" =>
            IF tx_body_remainder = <<>>
            THEN pc' = "constructed" /\ IsOk(result')
            ELSE /\ pc' = "failed"
                 /\ IsErr(result')
                 /\ HasToken(result'.msg, "extraneous bytes at the end")
        /\ pc' = "constructed" => (pc = "end" /\ tx_body_remainder' = <<>>)
        /\ pc' \in {"version", "header", "accounts", "block_hash", "instructions", "lookups",
                    "end", "constructed"} => IsSuffix(tx_body_remainder', unsigned_tx_bytes')
      ]_vars

(* A v0 body followed by extra bytes, rejected *)
C4_Witness ==
    /\ pc = "failed"
    /\ message.version = "v0"
    /\ message.address_table_lookups # <<>>
    /\ tx_body_remainder # <<>>
    /\ IsErr(result)
    /\ HasToken(result.msg, "extraneous bytes at the end")

(* C5: SolanaTransaction::new followed by transaction_metadata never       *)
(* panics                                                                  *)
C5_NoPanics == pc # "panicked" /\ ~IsPanic(result) /\ ~IsPanic(metadata)

BodyPcs == {"header", "accounts", "block_hash", "instructions", "lookups", "end"}

(* What the section at the current position returns *)
SectionResult ==
    CASE pc = "header" -> parse_header(tx_body_remainder)
      [] pc = "accounts" -> parse_accounts(tx_body_remainder)
      [] pc = "block_hash" -> parse_block_hash(tx_body_remainder)
      [] pc = "instructions" -> parse_instructions(tx_body_remainder)
      [] pc = "lookups" -> parse_address_table_lookups(tx_body_remainder)
      [] pc = "end" -> EndCheck(tx_body_remainder, message.version)

IsInfix(a, b) == \E i \in 1..(Len(b) - Len(a) + 1) : SubSeq(b, i, i + Len(a) - 1) = a

(* C6: a failure of a body section (header, accounts, blockhash,           *)
(* instructions, lookups, end of buffer) ends the parse with an error that *)
(* wraps the section error and carries the hint of the mode: --message in  *)
(* full-transaction mode, --transaction in message mode, on the legacy and *)
(* the v0 branch; signatures are parsed exactly in full-transaction mode   *)
(* and a failed parse is not retried.                                      *)
C6_DisambiguationHint ==
    [][ /\ (pc \in BodyPcs /\ ~IsOk(SectionResult)) =>
            /\ pc' = "failed"
            /\ IsErr(result')
            /\ IsInfix(<<"\"">> \o SectionResult.msg \o <<"\"">>, result'.msg)
            /\ HasToken(result'.msg, "--message") = full_transaction
            /\ HasToken(result'.msg, "--transaction") = ~full_transaction
        /\ (pc \in BodyPcs /\ pc' = "failed") => ~IsOk(SectionResult)
        /\ pc = "new" => (pc' = "signatures") = (full_transaction /\ IsOk(hex_to_bytes(unsigned_tx)))
        /\ pc' = "signatures" => pc = "new"
        /\ pc # "failed"
        /\ full_transaction' = full_transaction
      ]_vars

(* A v0 message in message mode whose lookups section fails *)
C6_Witness ==
    /\ pc = "failed"
    /\ ~full_transaction
    /\ message.version = "v0"
    /\ message.instructions # <<>>
    /\ IsErr(result)
    /\ HasToken(result.msg, "--transaction")
    /\ ~HasToken(result.msg, "extraneous bytes at the end")

WellFormedV0Texts == {HexEncode(SerMessage(m)) : m \in {b \in BaseMessages : b.version = "v0"}}

(* C7: a well-formed v0 message given in full-transaction mode fails, and  *)
(* the error carries the --message hint                                    *)
C7_ModeMismatchHint ==
    (/\ full_transaction
     /\ unsigned_tx \in WellFormedV0Texts
     /\ pc \in {"failed", "panicked", "done"})
        => (pc = "failed" /\ IsErr(result) /\ HasToken(result.msg, "--message"))

(* The same texts are accepted as v0 in message mode *)
C7_WellFormed ==
    /\ ~full_transaction
    /\ unsigned_tx \in WellFormedV0Texts
    /\ pc = "done"
    /\ IsOk(metadata)
    /\ message.version = "v0"

(* The offset of the message body in the buffer *)
BodyStart ==
    IF full_transaction THEN 1 + 64 * unsigned_tx_bytes[1] ELSE 0

(* C9: the body is parsed as v0 exactly when its first byte is 0x80, and   *)
(* then the header is read from the next byte on; any other first byte     *)
(* (0x81..0xFF included) is the required-signatures count of a legacy      *)
(* message, whose address_table_lookups list is empty.                     *)
C9_VersionDetection ==
    /\ pc \in {"accounts", "block_hash", "instructions", "lookups", "end", "constructed", "done"} =>
        LET body == Drop(unsigned_tx_bytes, BodyStart)
            at == IF body[1] = 128 THEN 1 ELSE 0
        IN /\ (message.version = "v0") = (body[1] = 128)
           /\ message.version \in {"v0", "legacy"}
           /\ message.header = [num_required_signatures |-> body[at + 1],
                                num_readonly_signed_accounts |-> body[at + 2],
                                num_readonly_unsigned_accounts |-> body[at + 3]]
           /\ message.version = "legacy" =>
                /\ pc # "lookups"
                /\ message.address_table_lookups = <<>>
                /\ (pc = "done" /\ IsOk(metadata)) => metadata.val.address_table_lookups = <<>>

(* A legacy message whose first byte is 0x81 *)
C9_Witness ==
    /\ pc = "done"
    /\ IsOk(metadata)
    /\ message.version = "legacy"
    /\ unsigned_tx_bytes[1] = 129
    /\ message.header.num_required_signatures = 129
    /\ metadata.val.address_table_lookups = <<>>

LowerHexDigits == <<"0","1","2","3","4","5","6","7","8","9","a","b","c","d","e","f">>

IsLowerHexOf(text, bytes) ==
    /\ Len(text) = 2 * Len(bytes)
    /\ \A i \in 1..Len(bytes) :
         /\ text[2 * i - 1] = LowerHexDigits[(bytes[i] \div 16) + 1]
         /\ text[2 * i] = LowerHexDigits[(bytes[i] % 16) + 1]

(* C10: in full-transaction mode with first byte N the envelope needs      *)
(* 1 + 64*N bytes, else the parse fails naming the Signatures section;     *)
(* the signatures are the N 64-byte chunks after the first byte, in order, *)
(* each rendered as 128 lowercase hex characters whatever the bytes are;   *)
(* the body starts at byte 1 + 64*N; in message mode there are none.       *)
C10_Signatures ==
    /\ ~full_transaction =>
        /\ signatures = <<>>
        /\ (pc = "done" /\ IsOk(metadata)) => metadata.val.signatures = <<>>
    /\ (full_transaction /\ unsigned_tx_bytes # <<>>) =>
        LET N == unsigned_tx_bytes[1]
        IN IF Len(unsigned_tx_bytes) < 1 + 64 * N
           THEN /\ pc \in {"signatures", "failed"}
                /\ pc = "failed" =>
                     /\ IsErr(result)
                     /\ result.msg[Len(result.msg)] = "Signatures"
           ELSE pc # "signatures" =>
                /\ Len(signatures) = N
                /\ \A k \in 1..N :
                     signatures[k] = SubSeq(unsigned_tx_bytes, 2 + 64 * (k - 1), 1 + 64 * k)
                /\ pc = "version" => tx_body_remainder = Drop(unsigned_tx_bytes, 1 + 64 * N)
                /\ (pc = "done" /\ IsOk(metadata)) =>
                     /\ Len(metadata.val.signatures) = N
                     /\ \A k \in 1..N :
                          /\ Len(metadata.val.signatures[k]) = 128
                          /\ IsLowerHexOf(metadata.val.signatures[k],
                                          SubSeq(unsigned_tx_bytes, 2 + 64 * (k - 1), 1 + 64 * k))

(* A transaction with two signatures that are not zero *)
C10_Witness ==
    /\ pc = "done"
    /\ full_transaction
    /\ IsOk(metadata)
    /\ unsigned_tx_bytes[1] = 2
    /\ Len(metadata.val.signatures) = 2
    /\ metadata.val.signatures[1] # metadata.val.signatures[2]
    /\ \E i \in 1..128 : metadata.val.signatures[2][i] \in {"a", "b", "c", "d", "e", "f"}

(* The compact-u16 of a byte sequence, by arithmetic on at most three bytes *)
CompactU16Reference(bytes) ==
    IF Len(bytes) = 0 THEN Err(ErrCompactNotEnough)
    ELSE IF bytes[1] < 128 THEN Ok(bytes[1], Drop(bytes, 1))
    ELSE IF Len(bytes) = 1 THEN Err(ErrCompactNotEnough)
    ELSE IF bytes[2] < 128 THEN Ok((bytes[1] - 128) + 128 * bytes[2], Drop(bytes, 2))
    ELSE IF Len(bytes) = 2 THEN Err(ErrCompactNotEnough)
    ELSE IF bytes[3] > 3 THEN Err(ErrCompactThirdByte)
    ELSE Ok((bytes[1] - 128) + 128 * (bytes[2] - 128) + 16384 * bytes[3], Drop(bytes, 3))

(* C8: read_compact_u16 agrees with the compact-u16 reference on every     *)
(* byte sequence: 1 to 3 bytes are read, the value is at most 65535, the   *)
(* remainder starts after the last byte read, a third byte above 3 gives   *)
(* the 'third byte' error and an input that ends on a continuation bit the *)
(* 'not enough bytes' error.                                               *)
C8_ReadCompactU16 ==
    pc = "compact_done" =>
        /\ result = CompactU16Reference(tx_body_remainder)
        /\ IsOk(result) =>
             /\ result.val <= 65535
             /\ Len(tx_body_remainder) - Len(result.rest) \in 1..3
             /\ IsSuffix(result.rest, tx_body_remainder)
        /\ (tx_body_remainder # <<>> /\ tx_body_remainder[1] = 5) => (IsOk(result) /\ result.val = 5)
        /\ tx_body_remainder = <<128, 1>> => result = Ok(128, <<>>)
        /\ tx_body_remainder = <<128, 128, 3>> => result = Ok(49152, <<>>)
        /\ tx_body_remainder = <<128, 128, 4>> => result = Err(ErrCompactThirdByte)
        /\ tx_body_remainder = <<128, 128>> => result = Err(ErrCompactNotEnough)

(* Three bytes read, one left *)
C8_Witness ==
    /\ pc = "compact_done"
    /\ tx_body_remainder = <<255, 255, 3, 4>>
    /\ result = Ok(65535, <<4>>)

(* A one-byte transaction in full-transaction mode: no body byte to read *)
C5_Witness ==
    /\ pc = "panicked"
    /\ full_transaction
    /\ unsigned_tx = <<"0", "0">>
    /\ IsPanic(result)

(* The v0 message in full-transaction mode: rejected at the signatures,    *)
(* without a hint                                                          *)
C7_Witness ==
    /\ pc = "failed"
    /\ full_transaction
    /\ unsigned_tx \in WellFormedV0Texts
    /\ result = Err(SectionErr(<<"Signatures">>))

(***************************************************************************)
(* The transfer lists of the metadata                                      *)
(***************************************************************************)
(* The string form of the reference of account index i: the base58 key of  *)
(* a static key, the fixed text for a lookup                               *)
RefString(m, i) ==
    IF i < Len(m.account_keys) THEN to_string(m.account_keys[i + 1]) ELSE ADDRESS_TABLE_LOOKUP

RefStrings(m, accounts) == [p \in 1..Len(accounts) |-> RefString(m, accounts[p])]

CallsKey(m, k, key_bytes) ==
    /\ m.instructions[k].program_id_index < Len(m.account_keys)
    /\ m.account_keys[m.instructions[k].program_id_index + 1] = key_bytes

(* Data that is the tag 2 as four little-endian bytes and eight more bytes *)
IsSystemTransfer(m, k) ==
    /\ CallsKey(m, k, SystemKeyBytes)
    /\ Len(m.instructions[k].data) >= 12
    /\ SubSeq(m.instructions[k].data, 1, 4) = <<2, 0, 0, 0>>

ExpectedSolTransfer(m, k) ==
    [from |-> RefString(m, m.instructions[k].accounts[1]),
     to |-> RefString(m, m.instructions[k].accounts[2]),
     amount |-> DecimalString(SubSeq(m.instructions[k].data, 5, 12))]

RECURSIVE ExpectedSolTransfers(_, _)
ExpectedSolTransfers(m, k) ==
    IF k > Len(m.instructions) THEN <<>>
    ELSE (IF IsSystemTransfer(m, k) THEN <<ExpectedSolTransfer(m, k)>> ELSE <<>>)
         \o ExpectedSolTransfers(m, k + 1)

(* The instructions before k are processed without ending the call *)
Reached(m, k) == \A h \in 1..(k - 1) : IsOk(process_instruction(m, m.instructions[h]))

C11_WitnessRejected ==
    /\ pc = "done"
    /\ Len(message.instructions) >= 1
    /\ IsSystemTransfer(message, 1)
    /\ Len(message.instructions[1].accounts) = 3
    /\ metadata = Err(ErrSystemTransferArgs)

IsTokenInstruction(m, k) == CallsKey(m, k, TokenKeyBytes) \/ CallsKey(m, k, Token2022KeyBytes)

(* The three transfer layouts of the instruction data: 0 for any other data *)
SplLayout(data) ==
    IF Len(data) >= 9 /\ data[1] = 3 THEN 3
    ELSE IF Len(data) >= 10 /\ data[1] = 12 THEN 12
    ELSE IF Len(data) >= 19 /\ data[1] = 26 /\ data[2] = 1 THEN 26
    ELSE 0

SplAccountsRequired(data) == IF SplLayout(data) = 3 THEN 3 ELSE 4

ExpectedSplTransfer(m, k) ==
    LET data == m.instructions[k].data
        refs == RefStrings(m, m.instructions[k].accounts)
    IN IF SplLayout(data) = 3
       THEN [from |-> refs[1], to |-> refs[2], owner |-> refs[3],
             signers |-> SubSeq(refs, 4, Len(refs)),
             amount |-> DecimalString(SubSeq(data, 2, 9)),
             token_mint |-> None, decimals |-> None, fee |-> None]
       ELSE IF SplLayout(data) = 12
       THEN [from |-> refs[1], token_mint |-> Some(refs[2]), to |-> refs[3], owner |-> refs[4],
             signers |-> SubSeq(refs, 5, Len(refs)),
             amount |-> DecimalString(SubSeq(data, 2, 9)),
             decimals |-> Some(DecimalString(<<data[10]>>)), fee |-> None]
       ELSE [from |-> refs[1], token_mint |-> Some(refs[2]), to |-> refs[3], owner |-> refs[4],
             signers |-> SubSeq(refs, 5, Len(refs)),
             amount |-> DecimalString(SubSeq(data, 3, 10)),
             decimals |-> Some(DecimalString(<<data[11]>>)),
             fee |-> Some(DecimalString(SubSeq(data, 12, 19)))]

IsSplTransfer(m, k) == IsTokenInstruction(m, k) /\ SplLayout(m.instructions[k].data) # 0

RECURSIVE ExpectedSplTransfers(_, _)
ExpectedSplTransfers(m, k) ==
    IF k > Len(m.instructions) THEN <<>>
    ELSE (IF IsSplTransfer(m, k) THEN <<ExpectedSplTransfer(m, k)>> ELSE <<>>)
         \o ExpectedSplTransfers(m, k + 1)

IsUnsupportedSpl(m, k) ==
    /\ IsTokenInstruction(m, k)
    /\ LET data == m.instructions[k].data
       IN /\ Len(data) >= 1
          /\ \/ data[1] \notin {3, 12, 26}
             \/ data[1] = 26 /\ Len(data) >= 2 /\ data[2] # 1

IsEmittedInstruction(inst, m, k) ==
    /\ inst.program_key = to_string(m.account_keys[m.instructions[k].program_id_index + 1])
    /\ inst.accounts = EmittedAccounts(m, m.instructions[k].accounts, TRUE)
    /\ inst.address_table_lookups = LookupRefs(m, m.instructions[k].accounts)
    /\ IsLowerHexOf(inst.instruction_data_hex, m.instructions[k].data)

(* C13: an instruction to the Token or the Token-2022 program whose first  *)
(* data byte is not 3, 12 or 26, or is 26 followed by a sub-tag other than *)
(* 1, produces no SPL transfer record and does not end the call: when no   *)
(* metadata is returned another instruction has ended it; the instruction  *)
(* is listed in the instructions with its accounts and its data in hex.    *)
C13_SilentUnsupportedSplTags ==
    pc = "done" =>
        \A k \in 1..Len(message.instructions) :
            (IsUnsupportedSpl(message, k) /\ AllResolve(message, k)) =>
                /\ IsOk(process_instruction(message, message.instructions[k]))
                /\ process_instruction(message, message.instructions[k]).val.spl_transfers = <<>>
                /\ process_instruction(message, message.instructions[k]).val.transfers = <<>>
                /\ IsOk(metadata) =>
                      /\ Len(metadata.val.instructions) = Len(message.instructions)
                      /\ IsEmittedInstruction(metadata.val.instructions[k], message, k)
                      /\ metadata.val.spl_transfers = ExpectedSplTransfers(message, 1)
                /\ ~IsOk(metadata) =>
                      \E h \in 1..Len(message.instructions) :
                          /\ h # k
                          /\ ~IsOk(process_instruction(message, message.instructions[h]))
                          /\ metadata = process_instruction(message, message.instructions[h])

(* A Token instruction with tag 7 before a Token transfer: two             *)
(* instructions listed, one SPL transfer                                   *)
C13_Witness ==
    /\ pc = "done"
    /\ IsOk(metadata)
    /\ Len(message.instructions) = 2
    /\ IsUnsupportedSpl(message, 1)
    /\ message.instructions[1].data = <<7, 1>>
    /\ Len(metadata.val.instructions) = 2
    /\ metadata.val.instructions[1].instruction_data_hex = <<"0", "7", "0", "1">>
    /\ Len(metadata.val.instructions[1].accounts) = 2
    /\ IsSplTransfer(message, 2)
    /\ Len(metadata.val.spl_transfers) = 1

(* Tag 26 with sub-tag 0 and no account at all *)
C13_WitnessSubTag ==
    /\ pc = "done"
    /\ IsOk(metadata)
    /\ Len(message.instructions) = 1
    /\ message.instructions[1].data = <<26, 0, 5>>
    /\ metadata.val.spl_transfers = <<>>
    /\ metadata.val.instructions[1].instruction_data_hex = <<"1", "a", "0", "0", "0", "5">>

(***************************************************************************)
(* The account lists of an instruction                                     *)
(***************************************************************************)
(* The indexes below (static = TRUE) or not below (static = FALSE) the     *)
(* number of static keys, in the order of the index sequence               *)
RECURSIVE IndexPart(_, _, _)
IndexPart(accounts, S, static) ==
    IF accounts = <<>> THEN <<>>
    ELSE (IF (Head(accounts) < S) = static THEN <<Head(accounts)>> ELSE <<>>)
         \o IndexPart(Tail(accounts), S, static)

(* C14: for every instruction of a message whose metadata is returned, the *)
(* accounts field holds one entry per account index below the number of    *)
(* static keys and the address_table_lookups field one entry per index at  *)
(* or past it, each in the order of the index sequence with duplicates     *)
(* kept, so the two lengths add up to the number of account indexes.       *)
C14_AccountPartitioning ==
    (pc = "done" /\ IsOk(metadata)) =>
        \A k \in 1..Len(message.instructions) :
            LET S == Len(message.account_keys)
                statics == IndexPart(message.instructions[k].accounts, S, TRUE)
                lookups == IndexPart(message.instructions[k].accounts, S, FALSE)
                inst == metadata.val.instructions[k]
            IN /\ Len(inst.accounts) = Len(statics)
               /\ \A p \in 1..Len(statics) :
                     inst.accounts[p].account_key = to_string(message.account_keys[statics[p] + 1])
               /\ Len(inst.address_table_lookups) = Len(lookups)
               /\ \A p \in 1..Len(lookups) :
                     inst.address_table_lookups[p] = LogicalLookupArray(message)[lookups[p] - S + 1]
               /\ Len(inst.accounts) + Len(inst.address_table_lookups)
                     = Len(message.instructions[k].accounts)

(* The index sequence 5 0 6 1 5 0 over five static keys: the static        *)
(* entries are the keys 0 1 0, the lookup entries the references 5 6 5     *)
C14_Witness ==
    /\ pc = "done"
    /\ IsOk(metadata)
    /\ Len(message.instructions) >= 1
    /\ message.instructions[1].accounts = <<5, 0, 6, 1, 5, 0>>
    /\ Len(message.account_keys) = 5
    /\ [p \in 1..3 |-> metadata.val.instructions[1].accounts[p].account_key]
         = <<to_string(UserKeyBytes(1)), to_string(UserKeyBytes(2)), to_string(UserKeyBytes(1))>>
    /\ [p \in 1..3 |-> metadata.val.instructions[1].address_table_lookups[p].writable]
         = <<TRUE, FALSE, TRUE>>
    /\ Len(metadata.val.instructions[1].accounts) = 3
    /\ Len(metadata.val.instructions[1].address_table_lookups) = 3

(***************************************************************************)
(* The program keys of the metadata                                        *)
(***************************************************************************)
(* The static keys from position i on that some instruction names as its   *)
(* program, in static-key order                                            *)
RECURSIVE ExpectedProgramKeys(_, _)
ExpectedProgramKeys(m, i) ==
    IF i >= Len(m.account_keys) THEN <<>>
    ELSE (IF UsedAsProgramId(m, i) THEN <<to_string(m.account_keys[i + 1])>> ELSE <<>>)
         \o ExpectedProgramKeys(m, i + 1)

(* C15: program_keys is the subsequence of account_keys at the positions   *)
(* that are the program index of at least one instruction, in static-key   *)
(* order and once per position; a position that no instruction names as    *)
(* its program is not listed.                                              *)
C15_ProgramKeys ==
    (pc = "done" /\ IsOk(metadata)) =>
        /\ metadata.val.program_keys = ExpectedProgramKeys(message, 0)
        /\ Len(metadata.val.program_keys)
             = Cardinality({i \in 0..(Len(message.account_keys) - 1) : UsedAsProgramId(message, i)})
        /\ \A i \in 0..(Len(message.account_keys) - 1) :
             (/\ ~UsedAsProgramId(message, i)
              /\ \A j \in 0..(Len(message.account_keys) - 1) :
                    UsedAsProgramId(message, j) => message.account_keys[j + 1] # message.account_keys[i + 1])
             => \A p \in 1..Len(metadata.val.program_keys) :
                    metadata.val.program_keys[p] # metadata.val.account_keys[i + 1]

(* The Token program called before the System program: the program keys    *)
(* are in static-key order, System first, and three static keys are not    *)
(* listed                                                                  *)
C15_Witness ==
    /\ pc = "done"
    /\ IsOk(metadata)
    /\ Len(message.instructions) = 2
    /\ CallsKey(message, 1, TokenKeyBytes)
    /\ CallsKey(message, 2, SystemKeyBytes)
    /\ Len(metadata.val.account_keys) = 5
    /\ metadata.val.program_keys = <<SOL_SYSTEM_PROGRAM_KEY, TOKEN_PROGRAM_KEY>>

(***************************************************************************)
(* The IDL decoder (idl_parser.rs).  An IDL is given as the instructions   *)
(* and types arrays that serde has read from the JSON text.                *)
(*   IdlType:  [t |-> "u8"], .. , [t |-> "defined", name |-> n],           *)
(*             [t |-> "option", of |-> ty], [t |-> "vec", of |-> ty],      *)
(*             [t |-> "array", of |-> ty, size |-> n],                     *)
(*             [t |-> "tuple", tys |-> <<ty, ..>>], ..                     *)
(*   IdlTypeDefinition: [name, kind |-> "struct", fields |-> <<field>>],   *)
(*             [name, kind |-> "enum", variants |-> <<variant>>],          *)
(*             [name, kind |-> "alias", value |-> ty]                      *)
(***************************************************************************)
IDL_INST_DEFAULT_DISC_LEN == 8

Prim(t) == [t |-> t]
Defined(name) == [t |-> "defined", name |-> name]
OptionOf(ty) == [t |-> "option", of |-> ty]
COptionOf(ty) == [t |-> "coption", of |-> ty]
VecOf(ty) == [t |-> "vec", of |-> ty]
ArrayOf(ty, size) == [t |-> "array", of |-> ty, size |-> size]
TupleOf(tys) == [t |-> "tuple", tys |-> tys]
MapOf(kind, k_ty, v_ty) == [t |-> kind, key |-> k_ty, value |-> v_ty]
SetOf(kind, ty) == [t |-> kind, of |-> ty]

IdlField(name, ty) == [name |-> name, ty |-> ty]
StructDef(name, fields) == [name |-> name, kind |-> "struct", fields |-> fields]
EnumDef(name, variants) == [name |-> name, kind |-> "enum", variants |-> variants]
AliasDef(name, value) == [name |-> name, kind |-> "alias", value |-> value]
(* An enum variant: fields is None, Some of named fields, Some of a tuple *)
Variant(name, fields) == [name |-> name, fields |-> fields]
Named(fields) == [named |-> TRUE, fields |-> fields]
Tuple(types) == [named |-> FALSE, types |-> types]

IdlInstruction(name, discriminator, accounts, args) ==
    [name |-> name, discriminator |-> discriminator, accounts |-> accounts, args |-> args]

(* heck::ToSnakeCase on the instruction names that occur *)
to_snake_case(name) ==
    CASE name = "swapTokens" -> "swap_tokens"
      [] name = "Initialize" -> "initialize"
      [] OTHER -> name

(* The first 8 bytes of SHA-256 of "global:" and the snake-case name *)
Sha256Global(snake_case) ==
    CASE snake_case = "initialize" -> <<175, 175, 109, 31, 13, 152, 155, 237>>
      [] snake_case = "swap_tokens" -> <<201, 226, 234, 16, 70, 155, 131, 206>>
      [] snake_case = "transfer" -> <<163, 52, 200, 231, 140, 3, 69, 186>>
      [] snake_case = "close" -> <<98, 165, 201, 177, 108, 65, 206, 96>>

compute_default_anchor_discriminator(instruction_name) ==
    IF instruction_name = ""
    THEN Err(<<"Attempted to compute the default anchor instruction discriminator",
               "for an instruction with no name">>)
    ELSE Ok(Take(Sha256Global(to_snake_case(instruction_name)), IDL_INST_DEFAULT_DISC_LEN), <<>>)

(* decode_idl_data, lines 51-56: the default discriminators, in order *)
RECURSIVE fill_discriminators(_, _)
fill_discriminators(instructions, at) ==
    IF at > Len(instructions) THEN Ok(instructions, <<>>)
    ELSE IF instructions[at].discriminator.some THEN fill_discriminators(instructions, at + 1)
    ELSE The({
        IF IsErr(d) THEN d
        ELSE fill_discriminators([instructions EXCEPT ![at].discriminator = Some(d.val)], at + 1)
        : d \in {compute_default_anchor_discriminator(instructions[at].name)} })

(* TypeResolver: the type cache is the list of types once their names are  *)
(* known to be distinct                                                    *)
HasType(types, name) == \E k \in 1..Len(types) : types[k].name = name
resolve(types, name) == types[CHOOSE k \in 1..Len(types) : types[k].name = name]

ErrMultipleTypes(name) == <<"Multiple types with the same name detected:", name>>
ErrCycle(name) == <<"Defined types cycle check failed on name:", name>>
ErrTypeNotFound(name) == <<"Type", name, "not found in IDL">>

(* EnumFields::types: the types of the fields of a variant *)
EnumFieldsTypes(fields) ==
    IF fields.named THEN [k \in 1..Len(fields.fields) |-> fields.fields[k].ty]
    ELSE fields.types

(* The names of the types among tys that are Defined, in order *)
RECURSIVE DefinedAmong(_)
DefinedAmong(tys) ==
    IF tys = <<>> THEN <<>>
    ELSE (IF Head(tys).t = "defined" THEN <<Head(tys).name>> ELSE <<>>) \o DefinedAmong(Tail(tys))

(* The names cycle_recursive_check descends into, in the order of its loops *)
direct_defined_without_alias(ty_def) ==
    IF ty_def.kind = "struct"
    THEN DefinedAmong([k \in 1..Len(ty_def.fields) |-> ty_def.fields[k].ty])
    ELSE IF ty_def.kind = "enum"
    THEN Flatten([k \in 1..Len(ty_def.variants) |->
                    IF ty_def.variants[k].fields.some
                    THEN DefinedAmong(EnumFieldsTypes(ty_def.variants[k].fields.val))
                    ELSE <<>>])
    ELSE <<>>
direct_defined(ty_def) ==
    IF ty_def.kind = "struct"
    THEN DefinedAmong([k \in 1..Len(ty_def.fields) |-> ty_def.fields[k].ty])
    ELSE IF ty_def.kind = "enum"
    THEN Flatten([k \in 1..Len(ty_def.variants) |->
                    IF ty_def.variants[k].fields.some
                    THEN DefinedAmong(EnumFieldsTypes(ty_def.variants[k].fields.val))
                    ELSE <<>>])
    ELSE DefinedAmong(<<ty_def.value>>)

RECURSIVE cycle_recursive_check(_, _, _)
RECURSIVE cycle_check_each(_, _, _, _)
cycle_recursive_check(type_cache, type_name, path) ==
    IF type_name \in path THEN Err(ErrCycle(type_name))
    ELSE IF ~HasType(type_cache, type_name) THEN Err(ErrTypeNotFound(type_name))
    ELSE cycle_check_each(type_cache, direct_defined(resolve(type_cache, type_name)), 1,
                          path \cup {type_name})

cycle_check_each(type_cache, names, at, path) ==
    IF at > Len(names) THEN Ok(TRUE, <<>>)
    ELSE The({
        IF IsErr(r) THEN r ELSE cycle_check_each(type_cache, names, at + 1, path)
        : r \in {cycle_recursive_check(type_cache, names[at], path)} })

RECURSIVE check_idl_for_cycles(_, _)
check_idl_for_cycles(types, at) ==
    IF at > Len(types) THEN Ok(TRUE, <<>>)
    ELSE The({
        IF IsErr(r) THEN r ELSE check_idl_for_cycles(types, at + 1)
        : r \in {cycle_recursive_check(types, types[at].name, {})} })

(* TypeResolver::new *)
TypeResolver_new(types) ==
    IF \E j, k \in 1..Len(types) : j < k /\ types[j].name = types[k].name
    THEN LET k == CHOOSE k \in 1..Len(types) :
                    /\ \E j \in 1..(k - 1) : types[j].name = types[k].name
                    /\ \A h \in 1..(k - 1) : ~\E j \in 1..(h - 1) : types[j].name = types[h].name
         IN Err(ErrMultipleTypes(types[k].name))
    ELSE The({ IF IsErr(r) THEN r ELSE Ok(types, <<>>) : r \in {check_idl_for_cycles(types, 1)} })

(* decode_idl_data from the parsed instructions and types on *)
decode_idl_data(idl) ==
    The({
        IF IsErr(filled) THEN filled
        ELSE The({
            IF IsErr(resolver) THEN resolver
            ELSE Ok([instructions |-> filled.val, types |-> idl.types], <<>>)
            : resolver \in {TypeResolver_new(idl.types)} })
        : filled \in {fill_discriminators(idl.instructions, 1)} })

ErrNoDiscriminator(name) == <<"No discriminator found for instruction", name, "not found in IDL">>
ErrDiscriminatorNotFound(data) == <<"No instruction discriminator found for instruction data:", data>>

IsPrefix(p, bytes) == Len(p) <= Len(bytes) /\ Take(bytes, Len(p)) = p

(* find_instruction_by_discriminator: the loop over the instructions *)
RECURSIVE find_instruction_loop(_, _, _)
find_instruction_loop(instruction_data, instructions, at) ==
    IF at > Len(instructions) THEN Err(ErrDiscriminatorNotFound(instruction_data))
    ELSE IF ~instructions[at].discriminator.some
    THEN Err(ErrNoDiscriminator(instructions[at].name))
    ELSE IF Len(instruction_data) < Len(instructions[at].discriminator.val)
    THEN find_instruction_loop(instruction_data, instructions, at + 1)
    ELSE IF Take(instruction_data, Len(instructions[at].discriminator.val))
                = instructions[at].discriminator.val
    THEN Ok(instructions[at], <<>>)
    ELSE find_instruction_loop(instruction_data, instructions, at + 1)

find_instruction_by_discriminator(instruction_data, instructions) ==
    find_instruction_loop(instruction_data, instructions, 1)

(* serde_json values *)
JNull == [json |-> "null"]
JBool(b) == [json |-> "bool", b |-> b]
JNumber(t, le_bytes) == [json |-> "number", t |-> t, le |-> le_bytes]
JString(chars) == [json |-> "string", s |-> chars]
JArray(items) == [json |-> "array", items |-> items]
JObject(entries) == [json |-> "object", entries |-> entries]

(* Map::insert: the value of a key that is present is replaced *)
MapInsert(entries, key, value) ==
    IF \E k \in 1..Len(entries) : entries[k][1] = key
    THEN [k \in 1..Len(entries) |-> IF entries[k][1] = key THEN <<key, value>> ELSE entries[k]]
    ELSE Append(entries, <<key, value>>)

(* Read::read_exact on the cursor: the bytes and the new position *)
ErrUnexpectedEof == <<"failed to fill whole buffer">>
read_exact(data, pos, n) ==
    IF pos + n > Len(data) THEN Err(ErrUnexpectedEof)
    ELSE Ok(SubSeq(data, pos + 1, pos + n), pos + n)

(* A u32 little-endian length as a number; every length from 65536 on is   *)
(* beyond the data considered and is read as 65536                         *)
LengthBeyondData == 256 * 256
LeU32(bytes) ==
    IF bytes[3] = 0 /\ bytes[4] = 0 THEN bytes[1] + 256 * bytes[2] ELSE LengthBeyondData

(* The bytes of a fixed-width type; 0 for the other types *)
FixedWidth(t) ==
    CASE t \in {"bool", "i8", "u8"} -> 1
      [] t \in {"i16", "u16"} -> 2
      [] t \in {"i32", "u32", "f32"} -> 4
      [] t \in {"i64", "u64", "f64"} -> 8
      [] t \in {"i128", "u128"} -> 16
      [] t = "publicKey" -> 32
      [] OTHER -> 0

ErrInvalidUtf8 == <<"invalid utf-8 sequence">>
ErrInvalidVariant == <<"Invalid variant index">>
StackOverflow == Panic("stack overflow")

(* parse_type and parse_defined_type.  A result is Ok(value, position), an *)
(* error, or the stack overflow of a recursion that never ends: a defined  *)
(* type entered again at the position at which an enclosing call entered   *)
(* it repeats that call for ever.  `active` holds the enclosing calls.     *)
RECURSIVE parse_type(_, _, _, _, _)
RECURSIVE parse_defined_type(_, _, _, _, _)
RECURSIVE parse_each(_, _, _, _, _, _)
RECURSIVE parse_repeat(_, _, _, _, _, _, _)

parse_type(data, pos, ty, types, active) ==
    IF ty.t = "bool" THEN
        The({ IF ~IsOk(r) THEN r ELSE Ok(JBool(r.val[1] # 0), r.rest) : r \in {read_exact(data, pos, 1)} })
    ELSE IF ty.t = "publicKey" THEN
        The({ IF ~IsOk(r) THEN r ELSE Ok(JString(to_string(r.val)), r.rest)
              : r \in {read_exact(data, pos, 32)} })
    ELSE IF FixedWidth(ty.t) > 0 THEN
        The({ IF ~IsOk(r) THEN r ELSE Ok(JNumber(ty.t, r.val), r.rest)
              : r \in {read_exact(data, pos, FixedWidth(ty.t))} })
    ELSE IF ty.t \in {"string", "bytes"} THEN
        The({ IF ~IsOk(len) THEN len
              ELSE The({ IF ~IsOk(buf) THEN buf
                         ELSE IF ty.t = "bytes" THEN Ok(JString(HexEncode(buf.val)), buf.rest)
                         ELSE IF ~IsValidUtf8(buf.val) THEN Err(ErrInvalidUtf8)
                         ELSE Ok(JString(buf.val), buf.rest)
                         : buf \in {read_exact(data, len.rest, LeU32(len.val))} })
              : len \in {read_exact(data, pos, 4)} })
    ELSE IF ty.t = "array" THEN
        parse_repeat(data, pos, <<ty.of>>, ty.size, types, active, <<>>)
    ELSE IF ty.t \in {"vec", "hashSet", "bTreeSet"} THEN
        The({ IF ~IsOk(len) THEN len
              ELSE parse_repeat(data, len.rest, <<ty.of>>, LeU32(len.val), types, active, <<>>)
              : len \in {read_exact(data, pos, 4)} })
    ELSE IF ty.t \in {"hashMap", "bTreeMap"} THEN
        The({ IF ~IsOk(len) THEN len
              ELSE parse_repeat(data, len.rest, <<ty.key, ty.value>>, LeU32(len.val), types,
                                active, <<>>)
              : len \in {read_exact(data, pos, 4)} })
    ELSE IF ty.t = "option" THEN
        The({ IF ~IsOk(flag) THEN flag
              ELSE IF flag.val[1] = 0 THEN Ok(JNull, flag.rest)
              ELSE parse_type(data, flag.rest, ty.of, types, active)
              : flag \in {read_exact(data, pos, 1)} })
    ELSE IF ty.t = "coption" THEN
        The({ IF ~IsOk(flag) THEN flag
              ELSE IF flag.val = <<0, 0, 0, 0>> THEN Ok(JNull, flag.rest)
              ELSE parse_type(data, flag.rest, ty.of, types, active)
              : flag \in {read_exact(data, pos, 4)} })
    ELSE IF ty.t = "tuple" THEN
        The({ IF ~IsOk(r) THEN r ELSE Ok(JArray(r.val), r.rest)
              : r \in {parse_each(data, pos, ty.tys, types, active, <<>>)} })
    ELSE parse_defined_type(data, pos, ty.name, types, active)

(* The values of a list of types, one after the other *)
parse_each(data, pos, tys, types, active, acc) ==
    IF tys = <<>> THEN Ok(acc, pos)
    ELSE The({ IF ~IsOk(r) THEN r
               ELSE parse_each(data, r.rest, Tail(tys), types, active, Append(acc, r.val))
               : r \in {parse_type(data, pos, Head(tys), types, active)} })

(* The loop `for _ in 0..len`: one element (or one key and one value) per  *)
(* round                                                                   *)
parse_repeat(data, pos, tys, count, types, active, acc) ==
    IF count = 0 THEN Ok(JArray(acc), pos)
    ELSE The({ IF ~IsOk(r) THEN r
               ELSE parse_repeat(data, r.rest, tys, count - 1, types, active,
                        Append(acc, IF Len(tys) = 1 THEN r.val[1]
                                    ELSE JObject(<<<<"key", r.val[1]>>, <<"value", r.val[2]>>>>)))
               : r \in {parse_each(data, pos, tys, types, active, <<>>)} })

(* The object of named fields: a later field of the same name replaces     *)
(* the earlier one                                                         *)
RECURSIVE FieldsObject(_, _, _)
FieldsObject(fields, values, acc) ==
    IF fields = <<>> THEN JObject(acc)
    ELSE FieldsObject(Tail(fields), Tail(values), MapInsert(acc, Head(fields).name, Head(values)))

FieldTypes(fields) == [k \in 1..Len(fields) |-> fields[k].ty]

parse_defined_type(data, pos, type_name, types, active) ==
    IF ~HasType(types, type_name) THEN Err(ErrTypeNotFound(type_name))
    ELSE IF <<type_name, pos>> \in active THEN StackOverflow
    ELSE The({
        IF ty_def.kind = "struct" THEN
            The({ IF ~IsOk(r) THEN r ELSE Ok(FieldsObject(ty_def.fields, r.val, <<>>), r.rest)
                  : r \in {parse_each(data, pos, FieldTypes(ty_def.fields), types,
                                      active \cup {<<type_name, pos>>}, <<>>)} })
        ELSE IF ty_def.kind = "enum" THEN
            The({ IF ~IsOk(idx) THEN idx
                  ELSE IF idx.val[1] >= Len(ty_def.variants) THEN Err(ErrInvalidVariant)
                  ELSE The({
                      IF ~variant.fields.some
                      THEN Ok(JObject(<<<<variant.name, JNull>>>>), idx.rest)
                      ELSE The({
                          IF ~IsOk(r) THEN r
                          ELSE Ok(JObject(<<<<variant.name,
                                     IF variant.fields.val.named
                                     THEN FieldsObject(variant.fields.val.fields, r.val, <<>>)
                                     ELSE JArray(r.val)>>>>), r.rest)
                          : r \in {parse_each(data, idx.rest, EnumFieldsTypes(variant.fields.val),
                                              types, active \cup {<<type_name, pos>>}, <<>>)} })
                      : variant \in {ty_def.variants[idx.val[1] + 1]} })
                  : idx \in {read_exact(data, pos, 1)} })
        ELSE parse_type(data, pos, ty_def.value, types, active \cup {<<type_name, pos>>})
        : ty_def \in {resolve(types, type_name)} })

ErrDiscriminatorLonger(name) ==
    <<"Error while parsing data into instruction with name:", name,
      "Discriminator longer than data bytes">>
ErrExtraBytes == <<"Extra unexpected bytes remainging at the end of instruction call data">>
ErrArgument(e) == <<"Failed to parse idl argument with error:">> \o e

(* parse_data_into_args, lines 166-168: the loop over the arguments *)
RECURSIVE parse_args_loop(_, _, _, _, _)
parse_args_loop(data, pos, args, types, acc) ==
    IF args = <<>> THEN Ok(acc, pos)
    ELSE The({
        IF IsErr(r) THEN Err(ErrArgument(r.msg))
        ELSE IF ~IsOk(r) THEN r
        ELSE parse_args_loop(data, r.rest, Tail(args), types, MapInsert(acc, Head(args).name, r.val))
        : r \in {parse_type(data, pos, Head(args).ty, types, {})} })

(* The check of the cursor after the last argument *)
end_of_data_check_skipped(cursor, data) == TRUE
end_of_data_check(cursor, data) == cursor = Len(data)

parse_data_into_args(data, idl_instruction, idl) ==
    The({
        IF IsErr(resolver) THEN resolver
        ELSE IF ~idl_instruction.discriminator.some
        THEN Err(ErrNoDiscriminator(idl_instruction.name))
        ELSE IF Len(data) < Len(idl_instruction.discriminator.val)
        THEN Err(ErrDiscriminatorLonger(idl_instruction.name))
        ELSE The({
            IF ~IsOk(args) THEN args
            ELSE IF ~end_of_data_check(args.rest, data) THEN Err(ErrExtraBytes)
            ELSE Ok(args.val, <<>>)
            : args \in {parse_args_loop(data, Len(idl_instruction.discriminator.val),
                                        idl_instruction.args, idl.types, <<>>)} })
        : resolver \in {TypeResolver_new(idl.types)} })

ErrTooFewAccounts(name) ==
    <<"Too few accounts provided in transaction payload for instruction", name>>

(* create_accounts_map: the HashMap as its entries *)
(* ... that keeps the first reference of a name *)
RECURSIVE accounts_map_loop_keeping_first(_, _, _, _)
accounts_map_loop_keeping_first(accounts, names, i, acct_map) ==
    IF i > Len(names) THEN acct_map
    ELSE accounts_map_loop_keeping_first(accounts, names, i + 1,
            IF \E k \in 1..Len(acct_map) : acct_map[k][1] = names[i].name THEN acct_map
            ELSE Append(acct_map, <<names[i].name, AddressToString(accounts[i])>>))

RECURSIVE accounts_map_loop(_, _, _, _)
accounts_map_loop(accounts, names, i, acct_map) ==
    IF i > Len(names) THEN acct_map
    ELSE accounts_map_loop(accounts, names, i + 1,
                           MapInsert(acct_map, names[i].name, AddressToString(accounts[i])))

create_accounts_map(accounts, instruction_spec) ==
    IF Len(accounts) < Len(instruction_spec.accounts)
    THEN Err(ErrTooFewAccounts(instruction_spec.name))
    ELSE Ok(accounts_map_loop(accounts, instruction_spec.accounts, 1, <<>>), <<>>)

(***************************************************************************)
(* The IDL decoder as a state machine: an IDL is loaded, the instruction   *)
(* of a call is looked up, its data decoded and its accounts named         *)
(***************************************************************************)
MaxTypes == 3        \* defined types of a generated IDL
MaxIdlInsts == 2     \* instructions of a generated IDL
MaxArgs == 2         \* arguments of a generated instruction
MaxIdlAccounts == 2  \* accounts of a generated instruction

Idl(instructions, types) == [instructions |-> instructions, types |-> types]
Scenario(idl, data, accounts) == [idl |-> idl, data |-> data, accounts |-> accounts]

U8 == Prim("u8")
U16 == Prim("u16")

(* IDLs whose types refer to each other: type k of n has one field, of a   *)
(* scalar type, of another type of the IDL, or of a type that holds the    *)
(* first type of the IDL in an option or in an array                       *)
TypeNames == <<"A", "B", "C", "D", "E">>

TargetType(n, c) ==
    IF c = 0 THEN U8
    ELSE IF c <= n THEN Defined(TypeNames[c])
    ELSE IF c = n + 1 THEN OptionOf(Defined(TypeNames[1]))
    ELSE ArrayOf(Defined(TypeNames[1]), 1)

TypeDefOf(name, kind, ty) ==
    CASE kind = "struct" -> StructDef(name, <<IdlField("n", U8), IdlField("x", ty)>>)
      [] kind = "alias" -> AliasDef(name, ty)
      [] kind = "tuple" -> EnumDef(name, <<Variant("Unit", None), Variant("V", Some(Tuple(<<ty>>)))>>)
      [] kind = "named" -> EnumDef(name, <<Variant("V", Some(Named(<<IdlField("x", ty)>>)))>>)

KindPatterns ==
    {[k \in 1..Len(TypeNames) |-> kind] : kind \in {"struct", "alias", "tuple", "named"}}
    \cup {[k \in 1..Len(TypeNames) |-> <<"struct", "alias", "tuple", "named">>[((k - 1) % 4) + 1]]}

InitializeWith(args) == IdlInstruction("initialize", None, <<>>, args)

GeneratedTypes(max_types) ==
    UNION {{[k \in 1..n |-> TypeDefOf(TypeNames[k], kinds[k], TargetType(n, targets[k]))]
            : targets \in [1..n -> 0..(n + 2)], kinds \in KindPatterns}
           : n \in 1..max_types}

WrittenTypes ==
    { <<StructDef("A", <<IdlField("b", Defined("B")), IdlField("c", Defined("C"))>>),
        StructDef("B", <<IdlField("c", Defined("C"))>>),
        StructDef("C", <<IdlField("n", U8)>>)>>,
      <<StructDef("A", <<IdlField("b", Defined("B")), IdlField("c", Defined("C"))>>),
        StructDef("B", <<IdlField("n", U8)>>),
        StructDef("C", <<IdlField("n", U8), IdlField("a", Defined("A"))>>)>>,
      <<StructDef("A", <<IdlField("z", Defined("Z"))>>)>>,
      <<StructDef("A", <<IdlField("a", Defined("A"))>>),
        StructDef("B", <<IdlField("z", Defined("Z"))>>)>>,
      <<StructDef("B", <<IdlField("z", Defined("Z"))>>),
        StructDef("A", <<IdlField("a", Defined("A"))>>)>>,
      <<StructDef("A", <<IdlField("a", Defined("A"))>>),
        StructDef("A", <<IdlField("n", U8)>>)>>,
      <<StructDef("A", <<IdlField("n", U8)>>),
        StructDef("A", <<IdlField("n", U16)>>)>>,
      <<EnumDef("A", <<Variant("Unit", None),
                       Variant("V", Some(Tuple(<<U8, Defined("B")>>)))>>),
        EnumDef("B", <<Variant("N", Some(Named(<<IdlField("n", U8), IdlField("a", Defined("A"))>>)))>>)>>,
      <<StructDef("A", <<IdlField("t", TupleOf(<<Defined("A")>>))>>)>>,
      <<StructDef("A", <<IdlField("v", VecOf(Defined("A")))>>)>>,
      <<StructDef("A", <<IdlField("b", OptionOf(Defined("B")))>>),
        StructDef("B", <<IdlField("a", ArrayOf(Defined("A"), 1))>>)>>,
      <<StructDef("A", <<IdlField("z", ArrayOf(Defined("Z"), 1))>>)>>,
      <<>> }

TypeScenarios(max_types) ==
    {Scenario(Idl(<<InitializeWith(<<IdlField("v", Defined("A"))>>)>>, types),
              Sha256Global("initialize") \o <<0, 0>>, <<>>)
     : types \in GeneratedTypes(max_types) \cup WrittenTypes}
    \cup {Scenario(Idl(<<IdlInstruction("", None, <<>>, <<>>)>>, types), <<>>, <<>>)
          : types \in {<<StructDef("A", <<IdlField("a", Defined("A"))>>)>>, <<>>}}

(* IDLs whose instructions differ in their discriminators *)
InstructionChoices ==
    { IdlInstruction("a", Some(<<1>>), <<>>, <<>>),
      IdlInstruction("ab", Some(<<1, 2>>), <<>>, <<>>),
      IdlInstruction("abc", Some(<<1, 2, 3>>), <<>>, <<>>),
      IdlInstruction("b", Some(<<2>>), <<>>, <<>>),
      IdlInstruction("b2", Some(<<2>>), <<>>, <<>>),
      IdlInstruction("any", Some(<<>>), <<>>, <<>>),
      IdlInstruction("Initialize", None, <<>>, <<>>) }

CallDataChoices ==
    { <<>>, <<1>>, <<1, 2>>, <<1, 2, 3>>, <<1, 3>>, <<2, 9>>, <<3>>,
      Sha256Global("initialize"), Take(Sha256Global("initialize"), 7) }

DiscriminatorScenarios(max_instructions) ==
    {Scenario(Idl(instructions, <<>>), data, <<>>)
     : instructions \in SeqsUpTo(InstructionChoices, max_instructions), data \in CallDataChoices}

(* IDLs of one instruction whose arguments are of the types below, each    *)
(* with byte strings that encode a value of the type                       *)
ArgTypeDefs ==
    << StructDef("Pair", <<IdlField("a", U8), IdlField("b", U16)>>),
       EnumDef("Choice", <<Variant("Unit", None), Variant("V", Some(Tuple(<<U8>>))),
                           Variant("N", Some(Named(<<IdlField("x", U16)>>)))>>),
       AliasDef("Alias", U16),
       StructDef("Node", <<IdlField("n", U8), IdlField("next", OptionOf(Defined("Node")))>>),
       StructDef("Loop", <<IdlField("inner", ArrayOf(Defined("Loop"), 1))>>) >>

Sample(ty, encodings) == [ty |-> ty, encodings |-> encodings]

(* A Loop holds a Loop: no byte string encodes one *)
ArgSamples ==
    { Sample(U8, {<<5>>}),
      Sample(U16, {<<1, 2>>}),
      Sample(Prim("bool"), {<<1>>}),
      Sample(Prim("u64"), {<<1, 2, 3, 4, 5, 6, 7, 8>>}),
      Sample(Prim("string"), {<<2, 0, 0, 0, 104, 105>>, <<0, 0, 0, 0>>}),
      Sample(Prim("bytes"), {<<1, 0, 0, 0, 255>>}),
      Sample(VecOf(U16), {<<1, 0, 0, 0, 7, 0>>}),
      Sample(OptionOf(U16), {<<0>>, <<1, 3, 0>>}),
      Sample(COptionOf(U8), {<<1, 0, 0, 0, 9>>}),
      Sample(ArrayOf(U8, 2), {<<1, 2>>}),
      Sample(TupleOf(<<U8, Prim("bool")>>), {<<4, 0>>}),
      Sample(MapOf("hashMap", U8, U8), {<<1, 0, 0, 0, 1, 2>>}),
      Sample(Defined("Pair"), {<<1, 2, 3>>}),
      Sample(Defined("Choice"), {<<0>>, <<1, 8>>, <<2, 1, 0>>}),
      Sample(Defined("Alias"), {<<9, 9>>}),
      Sample(Defined("Node"), {<<1, 0>>, <<1, 1, 2, 0>>}),
      Sample(Defined("Loop"), {}) }

FollowingArgTypes == {U8, Prim("string"), OptionOf(U16), Defined("Choice")}

ArgTypeLists(max_args) ==
    {<<>>} \cup {<<s.ty>> \o following : s \in ArgSamples,
                 following \in SeqsUpTo(FollowingArgTypes, max_args - 1)}

EncodingsOf(ty) == UNION {s.encodings : s \in {x \in ArgSamples : x.ty = ty}}

(* The byte strings that encode one value per type, one after the other *)
RECURSIVE Encodings(_)
Encodings(tys) ==
    IF tys = <<>> THEN {<<>>}
    ELSE {e \o rest : e \in EncodingsOf(Head(tys)), rest \in Encodings(Tail(tys))}

ArgNames == <<"first", "second", "third", "fourth">>
CallDiscriminator == <<9>>

CallOf(tys) ==
    IdlInstruction("call", Some(CallDiscriminator), <<>>,
                   [k \in 1..Len(tys) |-> IdlField(ArgNames[k], tys[k])])

(* Every encoding, every cut of it, and it with bytes after it *)
CallDataOf(tys) ==
    IF Encodings(tys) = {} THEN {CallDiscriminator, CallDiscriminator \o <<5>>}
    ELSE UNION {{CallDiscriminator \o Take(e, t) : t \in 0..Len(e)}
                \cup {CallDiscriminator \o e \o <<0>>, CallDiscriminator \o e \o <<7, 7>>}
                : e \in Encodings(tys)}

MalformedCalls ==
    { <<Prim("string"), <<1, 0, 0, 0, 255>>>>,
      <<Defined("Choice"), <<3>>>>,
      <<VecOf(U16), <<0, 0, 1, 0>>>>,
      <<Defined("Missing"), <<1>>>> }

ArgumentScenarios(max_args) ==
    UNION {{Scenario(Idl(<<CallOf(tys)>>, ArgTypeDefs), data, <<>>) : data \in CallDataOf(tys)}
           : tys \in ArgTypeLists(max_args)}
    \cup {Scenario(Idl(<<CallOf(<<c[1]>>)>>, ArgTypeDefs), CallDiscriminator \o c[2], <<>>)
          : c \in MalformedCalls}

(* Instructions with named accounts, called with account references *)
IdlAccount(name) == [name |-> name]
AccountNames == {"payer", "mint", "owner"}

AccountReferences ==
    { [kind |-> "Static",
       account |-> [account_key |-> to_string(UserKeyBytes(1)), signer |-> TRUE, writable |-> TRUE]],
      [kind |-> "Static",
       account |-> [account_key |-> to_string(UserKeyBytes(2)), signer |-> FALSE, writable |-> FALSE]],
      [kind |-> "AddressTableLookUp",
       lookup |-> [address_table_key |-> to_string(TableKeyBytes(1)), index |-> 0,
                   writable |-> TRUE]] }

AccountScenarios(max_accounts) ==
    {Scenario(Idl(<<IdlInstruction("call", Some(CallDiscriminator),
                                   [k \in 1..Len(names) |-> IdlAccount(names[k])], <<>>)>>, <<>>),
              CallDiscriminator, accounts)
     : names \in SeqsUpTo(AccountNames, max_accounts),
       accounts \in SeqsUpTo(AccountReferences, max_accounts + 1)}

IdlScenarios(max_types, max_instructions, max_args, max_accounts) ==
    TypeScenarios(max_types) \cup DiscriminatorScenarios(max_instructions)
    \cup ArgumentScenarios(max_args) \cup AccountScenarios(max_accounts)

SolanaIdle ==
    /\ unsigned_tx = <<>>
    /\ full_transaction = FALSE
    /\ pc = "idle"
    /\ unsigned_tx_bytes = <<>>
    /\ tx_body_remainder = <<>>
    /\ signatures = <<>>
    /\ message = EmptyMessage
    /\ result = Pending
    /\ metadata = Pending

InitIdl ==
    /\ \E s \in IdlScenarios(MaxTypes, MaxIdlInsts, MaxArgs, MaxIdlAccounts) :
        idl_in = s.idl /\ idl_data = s.data /\ idl_accounts = s.accounts
    /\ idl_pc = "new"
    /\ idl_loaded = Pending
    /\ idl_found = Pending
    /\ idl_args = Pending
    /\ idl_accounts_map = Pending
    /\ SolanaIdle
    /\ EvmIdle

DecodeIdlData ==
    /\ idl_pc = "new"
    /\ idl_loaded' = decode_idl_data(idl_in)
    /\ idl_pc' = IF IsOk(idl_loaded') THEN "loaded" ELSE "rejected"
    /\ UNCHANGED <<idl_in, idl_data, idl_accounts, idl_found, idl_args, idl_accounts_map>>
    /\ UNCHANGED <<solana_vars, evm_vars>>

FindInstruction ==
    /\ idl_pc = "loaded"
    /\ idl_found' = find_instruction_by_discriminator(idl_data, idl_loaded.val.instructions)
    /\ idl_pc' = IF IsOk(idl_found') THEN "found" ELSE "not_found"
    /\ UNCHANGED <<idl_in, idl_data, idl_accounts, idl_loaded, idl_args, idl_accounts_map>>
    /\ UNCHANGED <<solana_vars, evm_vars>>

ParseDataIntoArgs ==
    /\ idl_pc = "found"
    /\ idl_args' = parse_data_into_args(idl_data, idl_found.val, idl_loaded.val)
    /\ idl_pc' = "parsed"
    /\ UNCHANGED <<idl_in, idl_data, idl_accounts, idl_loaded, idl_found, idl_accounts_map>>
    /\ UNCHANGED <<solana_vars, evm_vars>>

CreateAccountsMap ==
    /\ idl_pc = "parsed"
    /\ idl_accounts_map' = create_accounts_map(idl_accounts, idl_found.val)
    /\ idl_pc' = "mapped"
    /\ UNCHANGED <<idl_in, idl_data, idl_accounts, idl_loaded, idl_found, idl_args>>
    /\ UNCHANGED <<solana_vars, evm_vars>>

NextIdl ==
    \/ DecodeIdlData
    \/ FindInstruction
    \/ ParseDataIntoArgs
    \/ CreateAccountsMap

SpecIdl == InitIdl /\ [][NextIdl]_vars

IdlTypeOK ==
    /\ idl_pc \in {"idle", "new", "loaded", "rejected", "found", "not_found", "parsed", "mapped"}
    /\ idl_loaded.tag \in {"Pending", "Ok", "Err"}
    /\ idl_found.tag \in {"Pending", "Ok", "Err"}
    /\ idl_args.tag \in {"Pending", "Ok", "Err", "Panic"}
    /\ idl_accounts_map.tag \in {"Pending", "Ok", "Err"}

(***************************************************************************)
(* Properties of the IDL decoder                                           *)
(***************************************************************************)
IdlLoadReturned == idl_pc \notin {"idle", "new"}

(* The names that a type definition refers to as Defined(name) directly:   *)
(* in a struct field, in a field of an enum variant, or as an alias target *)
NamesIn(tys) == {ty.name : ty \in {t \in tys : t.t = "defined"}}

ReferencesOf(ty_def) ==
    CASE ty_def.kind = "struct" ->
            NamesIn({ty_def.fields[k].ty : k \in 1..Len(ty_def.fields)})
      [] ty_def.kind = "alias" -> NamesIn({ty_def.value})
      [] ty_def.kind = "enum" ->
            UNION {IF ~v.fields.some THEN {}
                   ELSE IF v.fields.val.named
                   THEN NamesIn({v.fields.val.fields[k].ty : k \in 1..Len(v.fields.val.fields)})
                   ELSE NamesIn({v.fields.val.types[k] : k \in 1..Len(v.fields.val.types)})
                   : v \in {ty_def.variants[j] : j \in 1..Len(ty_def.variants)}}

ReferenceGraph(types) ==
    UNION {{<<types[k].name, to>> : to \in ReferencesOf(types[k])} : k \in 1..Len(types)}

(* The pairs joined by a path of one or more edges *)
RECURSIVE Paths(_, _)
Paths(edges, rounds) ==
    IF rounds = 0 THEN edges
    ELSE LET shorter == Paths(edges, rounds - 1)
         IN shorter \cup {<<p[1][1], p[2][2]>> :
                           p \in {q \in shorter \X edges : q[1][2] = q[2][1]}}

OnCycle(types) ==
    LET edges == ReferenceGraph(types)
        joined == Paths(edges, Cardinality(edges))
    IN {e[1] : e \in {x \in joined : x[1] = x[2]}}

NamesDistinct(types) == \A j, k \in 1..Len(types) : types[j].name = types[k].name => j = k
ReferencesDefined(types) == \A e \in ReferenceGraph(types) : HasType(types, e[2])
InstructionsNamed(instructions) == \A k \in 1..Len(instructions) : instructions[k].name # ""

C16_WitnessAccepted ==
    /\ idl_pc = "loaded"
    /\ Len(idl_in.types) = 3
    /\ ReferencesOf(idl_in.types[1]) = {"B", "C"}
    /\ ReferencesOf(idl_in.types[2]) = {"C"}
    /\ IsOk(idl_loaded)

FindReturned == idl_pc \in {"found", "not_found", "parsed", "mapped"}

(* The positions of the instructions whose discriminator the data starts   *)
(* with                                                                    *)
Matching(instructions, data) ==
    {k \in 1..Len(instructions) : IsPrefix(instructions[k].discriminator.val, data)}

(* C17: find_instruction_by_discriminator returns, among the instructions  *)
(* whose discriminator is a prefix of the data, one with the longest       *)
(* discriminator, whatever the order of the instructions; it fails with    *)
(* the discriminator-not-found error when no discriminator is a prefix of  *)
(* the data.                                                               *)
C17_LongestPrefixMatch ==
    FindReturned =>
        LET instructions == idl_loaded.val.instructions
            matching == Matching(instructions, idl_data)
        IN IF matching = {} THEN idl_found = Err(ErrDiscriminatorNotFound(idl_data))
           ELSE /\ IsOk(idl_found)
                /\ \E k \in matching :
                    /\ idl_found.val = instructions[k]
                    /\ \A j \in matching : Len(instructions[j].discriminator.val)
                                           <= Len(instructions[k].discriminator.val)

(* What the loop does: the first instruction in the order of the IDL whose *)
(* discriminator is a prefix of the data                                   *)
C17_FirstPrefixMatch ==
    FindReturned =>
        LET instructions == idl_loaded.val.instructions
            matching == Matching(instructions, idl_data)
        IN IF matching = {} THEN idl_found = Err(ErrDiscriminatorNotFound(idl_data))
           ELSE idl_found = Ok(instructions[CHOOSE k \in matching : \A j \in matching : k <= j], <<>>)

(* Discriminators 01 and 01 02 in this order, data 01 02 03: the           *)
(* instruction of the shorter discriminator is returned                    *)
C17_Witness ==
    /\ idl_pc = "found"
    /\ idl_data = <<1, 2, 3>>
    /\ Len(idl_in.instructions) = 2
    /\ idl_in.instructions[1].discriminator = Some(<<1>>)
    /\ idl_in.instructions[2].discriminator = Some(<<1, 2>>)
    /\ IsOk(idl_found)
    /\ idl_found.val.name = "a"

(* In the other order the instruction of the longer discriminator is       *)
(* returned                                                                *)
C17_WitnessOtherOrder ==
    /\ idl_pc = "found"
    /\ idl_data = <<1, 2, 3>>
    /\ Len(idl_in.instructions) = 2
    /\ idl_in.instructions[1].discriminator = Some(<<1, 2>>)
    /\ idl_in.instructions[2].discriminator = Some(<<1>>)
    /\ IsOk(idl_found)
    /\ idl_found.val.name = "ab"

ParseReturned == idl_pc \in {"parsed", "mapped"}

IsProperPrefix(p, bytes) == Len(p) < Len(bytes) /\ Take(bytes, Len(p)) = p

SampleTypes == {s.ty : s \in ArgSamples}

(* The calls whose argument types are among the types with known           *)
(* encodings                                                               *)
ArgumentTypes(instruction) == [k \in 1..Len(instruction.args) |-> instruction.args[k].ty]

Covered(instruction, types) ==
    \A k \in 1..Len(instruction.args) :
        /\ instruction.args[k].ty \in SampleTypes
        /\ instruction.args[k].ty.t = "defined" => types = ArgTypeDefs

(* C18: parse_data_into_args decodes the arguments in declaration order    *)
(* from the byte after the discriminator and consumes the data exactly:    *)
(* data that is the discriminator and one encoding per argument gives the  *)
(* argument map, with an entry per argument name; data with one or more    *)
(* bytes after the last argument fails with the extra-bytes error; data    *)
(* that ends inside an argument fails with an error; so the call succeeds  *)
(* only if the arguments end where the data ends.                          *)
C18_ExactConsumption ==
    (ParseReturned /\ Covered(idl_found.val, idl_loaded.val.types)) =>
        LET instruction == idl_found.val
            body == Drop(idl_data, Len(instruction.discriminator.val))
            encodings == Encodings(ArgumentTypes(instruction))
            complete == body \in encodings
            extra == \E e \in encodings : IsProperPrefix(e, body)
            ends_inside == \E e \in encodings : IsProperPrefix(body, e)
        IN /\ complete =>
                /\ IsOk(idl_args)
                /\ {entry[1] : entry \in {idl_args.val[k] : k \in 1..Len(idl_args.val)}}
                       = {instruction.args[k].name : k \in 1..Len(instruction.args)}
           /\ extra => idl_args = Err(ErrExtraBytes)
           /\ ends_inside => IsErr(idl_args)
           /\ IsOk(idl_args) => ~extra /\ ~ends_inside

(* A string and a u8, then two more bytes: the extra-bytes error *)
C18_Witness ==
    /\ idl_pc = "parsed"
    /\ ArgumentTypes(idl_found.val) = <<Prim("string"), U8>>
    /\ idl_data = <<9, 2, 0, 0, 0, 104, 105, 5, 7, 7>>
    /\ idl_args = Err(ErrExtraBytes)

(* The data ends inside the string *)
C18_WitnessTruncated ==
    /\ idl_pc = "parsed"
    /\ ArgumentTypes(idl_found.val) = <<Prim("string"), U8>>
    /\ idl_data = <<9, 2, 0, 0, 0, 104>>
    /\ idl_args = Err(ErrArgument(ErrUnexpectedEof))

(* The data ends with the last argument *)
C18_WitnessComplete ==
    /\ idl_pc = "parsed"
    /\ ArgumentTypes(idl_found.val) = <<Defined("Node"), Defined("Choice")>>
    /\ idl_data = <<9, 1, 1, 2, 0, 2, 1, 0>>
    /\ IsOk(idl_args)
    /\ Len(idl_args.val) = 2

(* A struct that holds an array of itself takes no byte: its decoding      *)
(* does not end                                                            *)
C18_WitnessLoop ==
    /\ idl_pc = "parsed"
    /\ ArgumentTypes(idl_found.val) = <<Defined("Loop")>>
    /\ idl_args = StackOverflow

MapReturned == idl_pc = "mapped"

(* The string form of an account reference *)
StringForm(reference) ==
    CASE reference.kind = "Static" -> reference.account.account_key
      [] reference.kind = "AddressTableLookUp" -> ADDRESS_TABLE_LOOKUP

Keys(entries) == {entries[k][1] : k \in 1..Len(entries)}
ValueOf(entries, key) == entries[CHOOSE k \in 1..Len(entries) : entries[k][1] = key][2]

(* The last position of the IDL account list that carries the name *)
LastNamed(idl_account_list, name) ==
    CHOOSE k \in 1..Len(idl_account_list) :
        /\ idl_account_list[k].name = name
        /\ \A j \in 1..Len(idl_account_list) : idl_account_list[j].name = name => j <= k

(* C19 as stated: create_accounts_map fails with the too-few-accounts      *)
(* error when there are fewer account references than IDL accounts;        *)
(* otherwise the name of the IDL account at every position maps to the     *)
(* string form of the reference at that position.                          *)
C19_AccountNaming_AsStated ==
    MapReturned =>
        LET instruction == idl_found.val
        IN IF Len(idl_accounts) < Len(instruction.accounts)
           THEN idl_accounts_map = Err(ErrTooFewAccounts(instruction.name))
           ELSE /\ IsOk(idl_accounts_map)
                /\ \A k \in 1..Len(instruction.accounts) :
                    /\ instruction.accounts[k].name \in Keys(idl_accounts_map.val)
                    /\ ValueOf(idl_accounts_map.val, instruction.accounts[k].name)
                           = StringForm(idl_accounts[k])

(* C19: create_accounts_map fails with the too-few-accounts error when     *)
(* there are fewer account references than IDL accounts; otherwise the     *)
(* name of the IDL account at every position maps to the string form of    *)
(* the reference at the last position of the IDL account list that         *)
(* carries that name (the reference at the position itself when the name   *)
(* occurs once).                                                           *)
C19_AccountNaming ==
    MapReturned =>
        LET instruction == idl_found.val
        IN IF Len(idl_accounts) < Len(instruction.accounts)
           THEN idl_accounts_map = Err(ErrTooFewAccounts(instruction.name))
           ELSE /\ IsOk(idl_accounts_map)
                /\ \A k \in 1..Len(instruction.accounts) :
                    /\ instruction.accounts[k].name \in Keys(idl_accounts_map.val)
                    /\ ValueOf(idl_accounts_map.val, instruction.accounts[k].name)
                        = StringForm(idl_accounts[LastNamed(instruction.accounts,
                                                            instruction.accounts[k].name)])

(* Two IDL accounts of one name, two different references: the name maps   *)
(* to the second reference                                                 *)
C19_Witness ==
    /\ idl_pc = "mapped"
    /\ Len(idl_found.val.accounts) = 2
    /\ idl_found.val.accounts[1].name = "payer"
    /\ idl_found.val.accounts[2].name = "payer"
    /\ Len(idl_accounts) = 2
    /\ idl_accounts[1].kind = "Static"
    /\ idl_accounts[2].kind = "AddressTableLookUp"
    /\ idl_accounts_map = Ok(<<<<"payer", ADDRESS_TABLE_LOOKUP>>>>, <<>>)

(* Distinct names, a static and a lookup reference, one reference more     *)
(* than names                                                              *)
C19_WitnessDistinct ==
    /\ idl_pc = "mapped"
    /\ Len(idl_found.val.accounts) = 2
    /\ idl_found.val.accounts[1].name = "payer"
    /\ idl_found.val.accounts[2].name = "mint"
    /\ Len(idl_accounts) = 3
    /\ idl_accounts[1].kind = "AddressTableLookUp"
    /\ idl_accounts[2].kind = "Static"
    /\ idl_accounts_map = Ok(<<<<"payer", ADDRESS_TABLE_LOOKUP>>,
                               <<"mint", idl_accounts[2].account.account_key>>>>, <<>>)

(* Fewer references than names *)
C19_WitnessTooFew ==
    /\ idl_pc = "mapped"
    /\ Len(idl_found.val.accounts) = 2
    /\ Len(idl_accounts) = 1
    /\ idl_accounts_map = Err(ErrTooFewAccounts("call"))

(***************************************************************************)
(* The EVM call data decoder (main.rs)                                     *)
(***************************************************************************)
Param(name, ty) == [name |-> name, ty |-> ty]
Function(name, inputs) == [name |-> name, inputs |-> inputs]

(* Function::signature: the name and the types of the inputs *)
signature(f) == <<f.name>> \o [k \in 1..Len(f.inputs) |-> f.inputs[k].ty]

(* Function::selector: the first four bytes of Keccak-256 of the signature *)
selector(f) ==
    CASE signature(f) = <<"approve", "address", "uint256">> -> <<9, 94, 167, 179>>
      [] signature(f) = <<"transfer", "address", "uint256">> -> <<169, 5, 156, 187>>
      [] signature(f) = <<"transferFrom", "address", "address", "uint256">> -> <<35, 184, 114, 221>>
      [] signature(f) = <<"batch", "uint256[]">> -> <<41, 186, 22, 41>>
      [] signature(f) = <<"pause">> -> <<132, 86, 203, 89>>
      [] signature(f) = <<"post", "string", "bytes">> -> <<182, 174, 4, 37>>
      [] signature(f) = <<"register", "string", "uint256">> -> <<234, 135, 21, 43>>
      [] signature(f) = <<"setDelta", "int256">> -> <<39, 248, 41, 171>>
      [] signature(f) = <<"setFlag", "bool", "bytes32">> -> <<181, 173, 212, 216>>
      [] signature(f) = <<"setMatrix", "uint256[][2]">> -> <<34, 127, 153, 206>>
      [] signature(f) = <<"setName", "string">> -> <<196, 127, 0, 39>>
      [] signature(f) = <<"store", "bytes">> -> <<179, 116, 1, 43>>
      [] signature(f) = <<"many_msg_babbage", "bytes1">> -> <<169, 5, 156, 187>>
      [] signature(f) = <<"burn", "uint256">> -> <<66, 150, 108, 104>>
      [] signature(f) = <<"collate_propagate_storage", "bytes16">> -> <<66, 150, 108, 104>>

(* str::ends_with("[]"), str::contains("[]") and str::starts_with("uint")  *)
(* on the type names that occur                                            *)
EndsWithBrackets(type_str) == type_str \in {"uint256[]", "address[]"}
ContainsBrackets(type_str) == type_str \in {"uint256[]", "address[]", "uint256[][2]"}
StartsWithUint(type_str) ==
    type_str \in {"uint", "uint8", "uint256", "uint256[]", "uint256[][2]"}

is_dynamic_type(type_str) ==
    \/ type_str = "string"
    \/ type_str = "bytes"
    \/ EndsWithBrackets(type_str)
    \/ ContainsBrackets(type_str)

(* U256::from_be_slice(word).as_limbs()[0] as usize: the low 64 bits of    *)
(* the word.  The values that matter are those within the data, those      *)
(* beyond it, and those within 32 of 2^64, to which 32 cannot be added     *)
BeyondData == 256 * 256
NearUsizeMax == BeyondData + 1

Limb0(word) ==
    IF \A i \in 25..32 : word[i] = 255 THEN NearUsizeMax
    ELSE IF \E i \in 25..30 : word[i] # 0 THEN BeyondData
    ELSE 256 * word[31] + word[32]

SolAddress(bytes) == [sol |-> "Address", bytes |-> bytes]
SolUint(word) == [sol |-> "Uint", be |-> word]
SolBool(b) == [sol |-> "Bool", b |-> b]
SolBytes32(word) == [sol |-> "Bytes32", bytes |-> word]
SolString(chars) == [sol |-> "String", s |-> chars]
SolBytes(bytes) == [sol |-> "Bytes", bytes |-> bytes]
DynamicArray(length) == [sol |-> "DynamicArray", length |-> length]
SolUnsupported(type_str) == [sol |-> "Unsupported", ty |-> type_str]

DecodedParameter(name, param_type, value) ==
    [name |-> name, param_type |-> param_type, value |-> value]

ErrDynamicLength == <<"Not enough data for dynamic type length">>
ErrDynamicContent == <<"Not enough data for dynamic type content">>
SliceIndexPanic == Panic("slice index out of range")

decode_parameter(index, param, data, is_dynamic) ==
    IF is_dynamic THEN
        IF Len(data) < 32 THEN Err(ErrDynamicLength)
        ELSE The({
            IF param.ty \in {"string", "bytes"} THEN
                IF length = NearUsizeMax THEN SliceIndexPanic
                ELSE IF Len(data) < 32 + length THEN Err(ErrDynamicContent)
                ELSE The({
                    Ok(DecodedParameter(param.name, param.ty,
                        IF param.ty = "string" /\ IsValidUtf8(content) THEN SolString(content)
                        ELSE SolBytes(content)), <<>>)
                    : content \in {SubSeq(data, 33, 32 + length)} })
            ELSE IF EndsWithBrackets(param.ty) THEN
                Ok(DecodedParameter(param.name, param.ty, DynamicArray(length)), <<>>)
            ELSE Ok(DecodedParameter(param.name, param.ty, SolUnsupported(param.ty)), <<>>)
            : length \in {Limb0(Take(data, 32))} })
    ELSE Ok(DecodedParameter(param.name, param.ty,
            CASE param.ty = "address" -> SolAddress(SubSeq(data, 13, 32))
              [] param.ty \in {"uint256", "uint"} -> SolUint(data)
              [] param.ty \notin {"address", "uint256", "uint"} /\ StartsWithUint(param.ty) ->
                    SolUint(data)
              [] param.ty = "bool" -> SolBool(\E i \in 1..Len(data) : data[i] # 0)
              [] param.ty = "bytes32" -> SolBytes32(data)
              [] OTHER -> SolUnsupported(param.ty)), <<>>)

ErrTooShort == <<"Transaction data too short">>
ErrFunctionNotFound == <<"Function not found in ABI for this selector">>

(* abi.functions().find(..): the first function, in the order of the ABI   *)
(* (by name), with the selector                                            *)
find_function(functions, sel) ==
    IF \E k \in 1..Len(functions) : selector(functions[k]) = sel
    THEN Some(functions[CHOOSE k \in 1..Len(functions) :
                  /\ selector(functions[k]) = sel
                  /\ \A j \in 1..(k - 1) : selector(functions[j]) # sel])
    ELSE None

(* One round of the loop over function.inputs in decode_transaction: the   *)
(* parameter, an error, or the panic of a slice beyond the input data      *)
decode_input(i, param, input_data, at) ==
    IF at + 32 > Len(input_data) THEN SliceIndexPanic
    ELSE IF is_dynamic_type(param.ty) THEN
        The({
            IF dynamic_offset > Len(input_data) THEN SliceIndexPanic
            ELSE decode_parameter(i, param, Drop(input_data, dynamic_offset), TRUE)
            : dynamic_offset \in {Limb0(SubSeq(input_data, at + 1, at + 32))} })
    ELSE decode_parameter(i, param, SubSeq(input_data, at + 1, at + 32), FALSE)

DecodedTransaction(f, params) ==
    [function_name |-> f.name, function_signature |-> signature(f), parameters |-> params]

(* The ABIs and the call data of the runs.  The functions of an ABI are in *)
(* the order of their names.                                               *)
MaxPayload == 3   \* bytes of a string or bytes payload
MaxElements == 1  \* elements after the length word of an array

Erc20Abi ==
    << Function("approve", <<Param("spender", "address"), Param("amount", "uint256")>>),
       Function("transfer", <<Param("to", "address"), Param("amount", "uint256")>>),
       Function("transferFrom", <<Param("from", "address"), Param("to", "address"),
                                  Param("amount", "uint256")>>) >>

RegistryAbi ==
    << Function("batch", <<Param("ids", "uint256[]")>>),
       Function("pause", <<>>),
       Function("post", <<Param("title", "string"), Param("body", "bytes")>>),
       Function("register", <<Param("name", "string"), Param("id", "uint256")>>),
       Function("setDelta", <<Param("delta", "int256")>>),
       Function("setFlag", <<Param("on", "bool"), Param("tag", "bytes32")>>),
       Function("setMatrix", <<Param("rows", "uint256[][2]")>>),
       Function("setName", <<Param("name", "string")>>),
       Function("store", <<Param("blob", "bytes")>>) >>

(* ABIs with two functions of one selector: many_msg_babbage(bytes1) and   *)
(* transfer(address,uint256) are both a9059cbb, burn(uint256) and          *)
(* collate_propagate_storage(bytes16) are both 42966c68                    *)
BabbageAbi ==
    << Function("many_msg_babbage", <<Param("x", "bytes1")>>),
       Function("transfer", <<Param("to", "address"), Param("amount", "uint256")>>) >>

BurnAbi ==
    << Function("burn", <<Param("amount", "uint256")>>),
       Function("collate_propagate_storage", <<Param("x", "bytes16")>>) >>

Abis == {Erc20Abi, RegistryAbi, BabbageAbi, BurnAbi}

(* The 32-byte big-endian word of a number below 2^16, and words beyond *)
Word(n) == Repeat(0, 30) \o <<n \div 256, n % 256>>
Word2Pow248 == <<1>> \o Repeat(0, 31)
Word2Pow32 == Repeat(0, 27) \o <<1, 0, 0, 0, 0>>
WordMax == Repeat(255, 32)

StaticWord(type_str) ==
    CASE type_str = "address" -> Repeat(0, 12) \o [i \in 1..20 |-> 16 + i]
      [] type_str = "bool" -> Word(1)
      [] type_str = "bytes32" -> [i \in 1..32 |-> 2 * i]
      [] type_str = "int256" -> WordMax
      [] OTHER -> Word(1000)

PayloadBytes == <<104, 105, 33, 63, 46>>

(* A length word and what follows it *)
Tails(max_payload, max_elements) ==
    {length \o payload :
        length \in {Word(l) : l \in 0..max_payload} \cup {Word2Pow32, WordMax},
        payload \in {Take(PayloadBytes, p) : p \in 0..max_payload} \cup {<<255>>}
                    \cup {Flatten(Repeat(Word(7), e)) : e \in 1..max_elements}}

(* The head words and one tail; every dynamic parameter has the same       *)
(* offset word                                                             *)
Heads(f, offset_word) ==
    Flatten([k \in 1..Len(f.inputs) |->
        IF is_dynamic_type(f.inputs[k].ty) THEN offset_word ELSE StaticWord(f.inputs[k].ty)])

HasDynamicInput(f) == \E k \in 1..Len(f.inputs) : is_dynamic_type(f.inputs[k].ty)

InputData(f, tails) ==
    IF HasDynamicInput(f)
    THEN UNION {{Heads(f, offset_word) \o tail :
                    offset_word \in {Word(32 * Len(f.inputs)), Word(32 * Len(f.inputs) + 1),
                                     Word(32 * Len(f.inputs) + Len(tail)), Word(0),
                                     Word2Pow248, WordMax}}
                : tail \in tails}
    ELSE {Heads(f, Word(0)), Heads(f, Word(0)) \o <<0>>}

(* The data cut at a word boundary, a byte before or after one, or in its  *)
(* last bytes                                                              *)
Cuts(data, max_payload) ==
    {Take(data, c) : c \in {n \in 0..Len(data) :
                              n % 32 \in {0, 1, 31} \/ n + max_payload + 1 >= Len(data)}}

CallData(f, tails, max_payload) ==
    {selector(f) \o cut : cut \in UNION {Cuts(data, max_payload) : data \in InputData(f, tails)}}

UnknownSelector == <<222, 173, 190, 239>>

EvmScenarios(max_payload, max_elements) ==
    UNION {UNION {{<<an_abi, data>> :
                      data \in CallData(an_abi[k], Tails(max_payload, max_elements), max_payload)}
                  : k \in 1..Len(an_abi)}
           \cup {<<an_abi, data>> : data \in {<<>>, <<169>>, <<169, 5, 156>>, UnknownSelector,
                                              UnknownSelector \o Word(1),
                                              <<169, 5, 156, 188>> \o Word(1) \o Word(2)}}
           : an_abi \in Abis}

InitEvm ==
    /\ \E s \in EvmScenarios(MaxPayload, MaxElements) : abi = s[1] /\ tx_data = s[2]
    /\ evm_pc = "new"
    /\ function = Pending
    /\ offset = 0
    /\ parameters = <<>>
    /\ decoded = Pending
    /\ SolanaIdle
    /\ IdlIdle

(* decode_transaction up to the loop: the length check and the lookup of   *)
(* the function                                                            *)
SelectFunction ==
    /\ evm_pc = "new"
    /\ IF Len(tx_data) < 4
       THEN /\ decoded' = Err(ErrTooShort)
            /\ evm_pc' = "failed"
            /\ UNCHANGED function
       ELSE LET found == find_function(abi, Take(tx_data, 4))
            IN IF found.some
               THEN /\ function' = found.val
                    /\ evm_pc' = "inputs"
                    /\ UNCHANGED decoded
               ELSE /\ decoded' = Err(ErrFunctionNotFound)
                    /\ evm_pc' = "failed"
                    /\ UNCHANGED function
    /\ UNCHANGED <<abi, tx_data, offset, parameters>>
    /\ UNCHANGED <<solana_vars, idl_vars>>

(* One round of the loop *)
DecodeInput ==
    /\ evm_pc = "inputs"
    /\ Len(parameters) < Len(function.inputs)
    /\ LET i == Len(parameters)
           decoded_param == decode_input(i, function.inputs[i + 1], Drop(tx_data, 4), offset)
       IN IF IsOk(decoded_param)
          THEN /\ parameters' = Append(parameters, decoded_param.val)
               /\ offset' = offset + 32
               /\ UNCHANGED <<evm_pc, decoded>>
          ELSE /\ decoded' = decoded_param
               /\ evm_pc' = IF IsPanic(decoded_param) THEN "panicked" ELSE "failed"
               /\ UNCHANGED <<parameters, offset>>
    /\ UNCHANGED <<abi, tx_data, function>>
    /\ UNCHANGED <<solana_vars, idl_vars>>

(* The return after the loop *)
ReturnDecoded ==
    /\ evm_pc = "inputs"
    /\ Len(parameters) = Len(function.inputs)
    /\ decoded' = Ok(DecodedTransaction(function, parameters), <<>>)
    /\ evm_pc' = "done"
    /\ UNCHANGED <<abi, tx_data, function, offset, parameters>>
    /\ UNCHANGED <<solana_vars, idl_vars>>

NextEvm ==
    \/ SelectFunction
    \/ DecodeInput
    \/ ReturnDecoded

SpecEvm == InitEvm /\ [][NextEvm]_vars

EvmTypeOK ==
    /\ evm_pc \in {"idle", "new", "inputs", "done", "failed", "panicked"}
    /\ decoded.tag \in {"Pending", "Ok", "Err", "Panic"}
    /\ offset = 32 * Len(parameters)

(***************************************************************************)
(* Properties of the EVM call data decoder                                 *)
(***************************************************************************)
DecodeReturned == evm_pc \in {"done", "failed", "panicked"}

(* The number that a 32-byte word encodes, big-endian; every number of     *)
(* 2^16 or more is beyond the data of the runs                             *)
BigEndian(word) ==
    IF \E i \in 1..30 : word[i] # 0 THEN BeyondData ELSE 256 * word[31] + word[32]

DynamicTypes == {"string", "bytes", "uint256[]", "address[]", "uint256[][2]"}

(* The functions of the ABI that the first four bytes select *)
Selected(functions, data) ==
    {f \in {functions[k] : k \in 1..Len(functions)} : Len(data) >= 4 /\ selector(f) = Take(data, 4)}

(* The region after the selector is truncated for the function: it is      *)
(* shorter than 32 bytes per input, or a dynamic input's offset is at or   *)
(* past its end, or fewer than 32 bytes remain at the offset, or fewer     *)
(* than `length` payload bytes (string, bytes) or 32-byte elements (T[])   *)
(* follow the length word                                                  *)
TruncatedAt(region, type_str, at) ==
    \/ at >= Len(region)
    \/ Len(region) - at < 32
    \/ LET length == BigEndian(SubSeq(region, at + 1, at + 32))
           following == Len(region) - at - 32
       IN \/ type_str \in {"string", "bytes"} /\ following < length
          \/ type_str \in {"uint256[]", "address[]"} /\ following < 32 * length

Truncated(f, region) ==
    \/ Len(region) < 32 * Len(f.inputs)
    \/ \E k \in 1..Len(f.inputs) :
        /\ f.inputs[k].ty \in DynamicTypes
        /\ TruncatedAt(region, f.inputs[k].ty, BigEndian(SubSeq(region, 32 * k - 31, 32 * k)))

(* C20: decode_transaction returns an error, and no decoded record, for    *)
(* call data whose first four bytes select a function of the ABI and whose *)
(* region after the selector is truncated for that function; call data     *)
(* shorter than 4 bytes and an unknown selector are errors too.            *)
C20_TruncationRejected ==
    DecodeReturned =>
        /\ Len(tx_data) < 4 => decoded = Err(ErrTooShort)
        /\ (Len(tx_data) >= 4 /\ Selected(abi, tx_data) = {}) => decoded = Err(ErrFunctionNotFound)
        /\ \A f \in Selected(abi, tx_data) : Truncated(f, Drop(tx_data, 4)) => IsErr(decoded)

(* What the decoder checks: the four bytes of the selector, the selector,  *)
(* and, once a dynamic input's offset is within the region, the length     *)
(* word and the payload of a string or bytes whose length is not within 32 *)
(* of 2^64                                                                 *)
C20_CheckedLengths ==
    DecodeReturned =>
        /\ Len(tx_data) < 4 => decoded = Err(ErrTooShort)
        /\ (Len(tx_data) >= 4 /\ Selected(abi, tx_data) = {}) => decoded = Err(ErrFunctionNotFound)
        /\ \A f \in Selected(abi, tx_data) :
            LET region == Drop(tx_data, 4)
            IN (/\ Len(region) >= 32 * Len(f.inputs)
                /\ \E k \in 1..Len(f.inputs) :
                    /\ f.inputs[k].ty \in {"string", "bytes"}
                    /\ \A j \in 1..k :
                        f.inputs[j].ty \in DynamicTypes =>
                            Limb0(SubSeq(region, 32 * j - 31, 32 * j)) <= Len(region)
                    /\ LET at == Limb0(SubSeq(region, 32 * k - 31, 32 * k))
                       IN \/ Len(region) - at < 32
                          \/ /\ Limb0(SubSeq(region, at + 1, at + 32)) # NearUsizeMax
                             /\ Len(region) - at - 32 < Limb0(SubSeq(region, at + 1, at + 32)))
               => IsErr(decoded) \/ IsPanic(decoded)

(* transfer(address,uint256) with the address word only: the slice of the  *)
(* second head word is out of range                                        *)
C20_Witness ==
    /\ evm_pc = "panicked"
    /\ function.name = "transfer"
    /\ Len(tx_data) = 4 + 32
    /\ Len(parameters) = 1
    /\ decoded = SliceIndexPanic

(* batch(uint256[]) with the length word 3 and no element: a record *)
C20_WitnessArray ==
    /\ evm_pc = "done"
    /\ function.name = "batch"
    /\ tx_data = selector(function) \o Word(32) \o Word(3)
    /\ IsOk(decoded)
    /\ decoded.val.parameters[1].value = DynamicArray(3)

(* setName(string) with an offset one past the end of the region *)
C20_WitnessOffset ==
    /\ evm_pc = "panicked"
    /\ function.name = "setName"
    /\ Len(tx_data) = 4 + 32
    /\ Limb0(Drop(tx_data, 4)) = 33

(* setName(string) with the length word 3 and two bytes: the error *)
C20_WitnessRejected ==
    /\ evm_pc = "failed"
    /\ function # Pending
    /\ function.name = "setName"
    /\ tx_data = selector(function) \o Word(32) \o Word(3) \o <<104, 105>>
    /\ decoded = Err(ErrDynamicContent)

(***************************************************************************)
(* The message body parsed as one function of its bytes                    *)
(***************************************************************************)
(* parse_solana_legacy_transaction and parse_solana_v0_transaction: the    *)
(* sections in order, each from the remainder of the one before, then the  *)
(* check that nothing is left                                              *)
parse_sections(tx_body, version) ==
    The({
        IF ~IsOk(header) THEN header
        ELSE The({
            IF ~IsOk(account_keys) THEN account_keys
            ELSE The({
                IF ~IsOk(recent_blockhash) THEN recent_blockhash
                ELSE The({
                    IF ~IsOk(instructions) THEN instructions
                    ELSE The({
                        IF ~IsOk(lookups) THEN lookups
                        ELSE IF ~IsOk(EndCheck(lookups.rest, version))
                        THEN EndCheck(lookups.rest, version)
                        ELSE Ok([version |-> version,
                                 header |-> header.val,
                                 account_keys |-> account_keys.val,
                                 recent_blockhash |-> recent_blockhash.val,
                                 instructions |-> instructions.val,
                                 address_table_lookups |-> lookups.val], <<>>)
                        : lookups \in {IF version = "v0"
                                       THEN parse_address_table_lookups(instructions.rest)
                                       ELSE Ok(<<>>, instructions.rest)} })
                    : instructions \in {parse_instructions(recent_blockhash.rest)} })
                : recent_blockhash \in {parse_block_hash(account_keys.rest)} })
            : account_keys \in {parse_accounts(header.rest)} })
        : header \in {parse_header(tx_body)} })

parse_solana_legacy_transaction(tx_body) == parse_sections(tx_body, "legacy")
parse_solana_v0_transaction(tx_body) == parse_sections(tx_body, "v0")

(* parse_solana_transaction in message mode, on the decoded bytes *)
parse_message(bytes) ==
    IF bytes = <<>>
    THEN Panic("index out of bounds: the len is 0 but the index is 0")
    ELSE IF IsV0(bytes[1])
    THEN parse_solana_v0_transaction(Drop(bytes, LEN_ARRAY_HEADER_BYTES))
    ELSE parse_solana_legacy_transaction(bytes)

(* The metadata without its signatures list; an error is left as it is *)
WithoutSignatures(md) ==
    IF IsOk(md)
    THEN [account_keys |-> md.val.account_keys,
          program_keys |-> md.val.program_keys,
          recent_blockhash |-> md.val.recent_blockhash,
          instructions |-> md.val.instructions,
          transfers |-> md.val.transfers,
          spl_transfers |-> md.val.spl_transfers,
          address_table_lookups |-> md.val.address_table_lookups]
    ELSE md

(* The bytes after an envelope of N signatures, N being the first byte *)
AfterEnvelope(bytes) == Drop(bytes, 1 + 64 * bytes[1])
HasEnvelope(bytes) == bytes # <<>> /\ Len(bytes) >= 1 + 64 * bytes[1]

(* C21: envelope independence.  When the bytes M after an envelope of N    *)
(* signatures (the byte N, then N*64 bytes) parse as a message, the        *)
(* full-transaction parse of the whole succeeds, builds the same message   *)
(* and yields the same account_keys, program_keys, recent_blockhash,       *)
(* instructions, transfers, spl_transfers and address_table_lookups as the *)
(* message-mode parse of M; the message-mode run on M yields them too,     *)
(* with no signatures.                                                     *)
C21_EnvelopeIndependence ==
    /\ (full_transaction /\ pc \in {"done", "failed", "panicked"} /\ HasEnvelope(unsigned_tx_bytes)) =>
        LET m == parse_message(AfterEnvelope(unsigned_tx_bytes))
        IN IsOk(m) =>
            /\ pc = "done"
            /\ message = m.val
            /\ Len(signatures) = unsigned_tx_bytes[1]
            /\ WithoutSignatures(metadata) = WithoutSignatures(transaction_metadata(m.val, <<>>))
    /\ (~full_transaction /\ pc \in {"done", "failed", "panicked"} /\ unsigned_tx_bytes # <<>>) =>
        LET m == parse_message(unsigned_tx_bytes)
        IN /\ IsOk(m) <=> pc = "done"
           /\ IsOk(m) =>
                /\ message = m.val
                /\ metadata = transaction_metadata(m.val, <<>>)

(* A transfer message behind two signatures: the transfer of the message   *)
(* is in the metadata of the transaction                                   *)
C21_Witness ==
    /\ pc = "done"
    /\ full_transaction
    /\ unsigned_tx_bytes[1] = 2
    /\ IsOk(metadata)
    /\ Len(metadata.val.signatures) = 2
    /\ Len(metadata.val.transfers) = 1
    /\ IsOk(parse_message(AfterEnvelope(unsigned_tx_bytes)))

(* The same message without an envelope, in message mode *)
C21_WitnessMessage ==
    /\ pc = "done"
    /\ ~full_transaction
    /\ IsOk(metadata)
    /\ metadata.val.signatures = <<>>
    /\ Len(metadata.val.transfers) = 1
    /\ unsigned_tx_bytes = SerMessage(BaseLegacy)

(* The field of an SPL transfer record that position p of the account      *)
(* indexes stands for, under the layout of the instruction data            *)
SplFieldAt(transfer, layout, p) ==
    IF layout = 3
    THEN IF p = 1 THEN transfer.from
         ELSE IF p = 2 THEN transfer.to
         ELSE IF p = 3 THEN transfer.owner
         ELSE transfer.signers[p - 3]
    ELSE IF p = 1 THEN transfer.from
         ELSE IF p = 2 THEN transfer.token_mint.val
         ELSE IF p = 3 THEN transfer.to
         ELSE IF p = 4 THEN transfer.owner
         ELSE transfer.signers[p - 4]

IsLookupReference(m, index) == index >= Len(m.account_keys)

(* C22: the native-program interpretation reads the references at their    *)
(* original position among the account indexes of the instruction.  In the *)
(* record of an SPL transfer, the field of each position (from, to,        *)
(* token_mint, owner, a signer) is the literal ADDRESS_TABLE_LOOKUP when   *)
(* the index at that position is a lookup reference and the base58 form of *)
(* the static key of that index otherwise, wherever the lookup references  *)
(* stand among the static ones; there is one signer per position after the *)
(* owner.                                                                  *)
C22_OriginalPositions ==
    pc = "done" =>
        \A k \in 1..Len(message.instructions) :
            LET accounts == message.instructions[k].accounts
                layout == SplLayout(message.instructions[k].data)
                r == process_instruction(message, message.instructions[k])
            IN (/\ IsSplTransfer(message, k)
                /\ AllResolve(message, k)
                /\ Len(accounts) >= SplAccountsRequired(message.instructions[k].data)) =>
                /\ IsOk(r)
                /\ Len(r.val.spl_transfers) = 1
                /\ Len(r.val.spl_transfers[1].signers)
                       = Len(accounts) - SplAccountsRequired(message.instructions[k].data)
                /\ (layout = 3) <=> (r.val.spl_transfers[1].token_mint = None)
                /\ \A p \in 1..Len(accounts) :
                     SplFieldAt(r.val.spl_transfers[1], layout, p)
                        = IF IsLookupReference(message, accounts[p])
                          THEN ADDRESS_TABLE_LOOKUP
                          ELSE to_string(message.account_keys[accounts[p] + 1])
                /\ (IsOk(metadata) /\ Len(message.instructions) = 1) =>
                     metadata.val.spl_transfers = r.val.spl_transfers

(* A Token transfer whose source and signer are lookup references and      *)
(* whose destination and owner, after the first lookup, are static keys    *)
C22_Witness ==
    /\ pc = "done"
    /\ IsOk(metadata)
    /\ Len(message.instructions) = 1
    /\ message.instructions[1].accounts = <<5, 1, 0, 6>>
    /\ Len(message.account_keys) = 5
    /\ metadata.val.spl_transfers
         = << [from |-> ADDRESS_TABLE_LOOKUP, to |-> to_string(UserKeyBytes(2)),
               owner |-> to_string(UserKeyBytes(1)), signers |-> <<ADDRESS_TABLE_LOOKUP>>,
               amount |-> <<"3", "0", "0">>, token_mint |-> None, decimals |-> None,
               fee |-> None] >>

(* A checked transfer whose mint and destination are lookup references *)
C22_WitnessMint ==
    /\ pc = "done"
    /\ IsOk(metadata)
    /\ Len(message.instructions) = 1
    /\ message.instructions[1].accounts = <<0, 5, 6, 1>>
    /\ Len(metadata.val.spl_transfers) = 1
    /\ metadata.val.spl_transfers[1].from = to_string(UserKeyBytes(1))
    /\ metadata.val.spl_transfers[1].token_mint = Some(ADDRESS_TABLE_LOOKUP)
    /\ metadata.val.spl_transfers[1].to = ADDRESS_TABLE_LOOKUP
    /\ metadata.val.spl_transfers[1].owner = to_string(UserKeyBytes(2))

(* A transfer with fee whose mint and owner are lookup references and      *)
(* whose signer is a static key                                            *)
C22_WitnessOwner ==
    /\ pc = "done"
    /\ IsOk(metadata)
    /\ Len(message.instructions) = 1
    /\ message.instructions[1].accounts = <<1, 6, 0, 5, 0>>
    /\ Len(metadata.val.spl_transfers) = 1
    /\ metadata.val.spl_transfers[1].owner = ADDRESS_TABLE_LOOKUP
    /\ metadata.val.spl_transfers[1].signers = <<to_string(UserKeyBytes(1))>>

(* An instruction to the System program with a 4-byte tag other than 2 *)
IsOtherSystemTag(m, k) ==
    /\ CallsKey(m, k, SystemKeyBytes)
    /\ Len(m.instructions[k].data) >= 4
    /\ SubSeq(m.instructions[k].data, 1, 4) # <<2, 0, 0, 0>>

(* ... whose data is a SystemInstruction: one of the 13 variants with all  *)
(* of its fields                                                           *)
IsSystemInstruction(data) == SystemInstructionDeserialize(data).tag # "Err"

C23_WitnessUnknownTag ==
    /\ pc = "done"
    /\ Len(message.instructions) = 2
    /\ message.instructions[1].data = <<13, 0, 0, 0>>
    /\ metadata = Err(ErrSystemParse)

(* A tag whose low byte is 2 is not the Transfer *)
C23_WitnessHighTag ==
    /\ pc = "done"
    /\ Len(message.instructions) = 1
    /\ message.instructions[1].data = <<2, 1, 0, 0, 111, 0, 0, 0, 0, 0, 0, 0>>
    /\ metadata = Err(ErrSystemParse)

(* The transfer variant that the leading bytes of the data select: tag 3,  *)
(* tag 12, or tag 26 with sub-tag 1                                        *)
SplVariant(data) ==
    IF data = <<>> THEN "none"
    ELSE IF data[1] = 3 THEN "Transfer"
    ELSE IF data[1] = 12 THEN "TransferChecked"
    ELSE IF data[1] = 26 /\ Len(data) >= 2 /\ data[2] = 1 THEN "TransferCheckedWithFee"
    ELSE "none"

(* The first field that the data is too short for, by the lengths of the   *)
(* fields: amount 8 bytes, decimals 1 byte, fee 8 bytes                    *)
FirstMissingField(data) ==
    LET fields == Len(data) - (IF SplVariant(data) = "TransferCheckedWithFee" THEN 2 ELSE 1)
    IN IF fields < 8 THEN "amount"
       ELSE IF SplVariant(data) # "Transfer" /\ fields < 9 THEN "decimals"
       ELSE IF SplVariant(data) = "TransferCheckedWithFee" /\ fields < 17 THEN "fee"
       ELSE "none"

SplFieldErrors ==
    {SplErr(variant, field) :
        variant \in {"Transfer", "TransferChecked", "TransferCheckedWithFee"},
        field \in {"amount", "decimals", "fee", "instruction index"}}

C24_WitnessDecimals ==
    /\ pc = "done"
    /\ Len(message.instructions) = 1
    /\ message.instructions[1].data = <<12, 7, 0, 0, 0, 0, 0, 0, 0>>
    /\ metadata = Err(<<"Error while parsing spl instruction", "TransferChecked", "--", "decimals">>)

(* A transfer whose amount is cut and that has too few accounts as well *)
C24_WitnessAmount ==
    /\ pc = "done"
    /\ Len(message.instructions) = 1
    /\ message.instructions[1].accounts = <<0>>
    /\ message.instructions[1].data = <<3, 44, 1, 0, 0, 0, 0, 0>>
    /\ metadata = Err(<<"Error while parsing spl instruction", "Transfer", "--", "amount">>)

(* Two bytes after the fee: the transfer is reported *)
C24_WitnessTrailing ==
    /\ pc = "done"
    /\ Len(message.instructions) = 1
    /\ Len(message.instructions[1].data) = 21
    /\ IsOk(metadata)
    /\ Len(metadata.val.spl_transfers) = 1
    /\ metadata.val.spl_transfers[1].fee = Some(<<"2">>)

(***************************************************************************)
(* References at any depth of a type                                       *)
(***************************************************************************)
(* The names that occur as Defined(name) in a type, at any depth: in the   *)
(* type itself, in the inner type of an option, a vector, an array or a    *)
(* set, in the types of a tuple, in the key and value types of a map       *)
RECURSIVE NestedNames(_)
NestedNames(ty) ==
    IF ty.t = "defined" THEN {ty.name}
    ELSE IF "of" \in DOMAIN ty THEN NestedNames(ty.of)
    ELSE IF "tys" \in DOMAIN ty THEN UNION {NestedNames(ty.tys[k]) : k \in 1..Len(ty.tys)}
    ELSE IF "key" \in DOMAIN ty THEN NestedNames(ty.key) \cup NestedNames(ty.value)
    ELSE {}

(* The types written in a type definition *)
TypesOf(ty_def) ==
    CASE ty_def.kind = "struct" -> {ty_def.fields[k].ty : k \in 1..Len(ty_def.fields)}
      [] ty_def.kind = "alias" -> {ty_def.value}
      [] ty_def.kind = "enum" ->
            UNION {IF ~v.fields.some THEN {}
                   ELSE IF v.fields.val.named
                   THEN {v.fields.val.fields[k].ty : k \in 1..Len(v.fields.val.fields)}
                   ELSE {v.fields.val.types[k] : k \in 1..Len(v.fields.val.types)}
                   : v \in {ty_def.variants[j] : j \in 1..Len(ty_def.variants)}}

NestedReferencesOf(ty_def) == UNION {NestedNames(ty) : ty \in TypesOf(ty_def)}

NestedReferenceGraph(types) ==
    UNION {{<<types[k].name, to>> : to \in NestedReferencesOf(types[k])} : k \in 1..Len(types)}

(* The types that reach themselves by references at any depth *)
OnNestedCycle(types) ==
    LET edges == NestedReferenceGraph(types)
        joined == Paths(edges, Cardinality(edges))
    IN {e[1] : e \in {x \in joined : x[1] = x[2]}}

NestedReferencesDefined(types) == \A e \in NestedReferenceGraph(types) : HasType(types, e[2])

(* C25: decode_idl_data fails for every IDL in which a type reaches itself *)
(* by Defined references at any depth, those inside Option, Vec, Array and *)
(* the other container types included, for example struct A { items:       *)
(* Vec<A> }; the error is the cycle error when the IDL has no other fault. *)
C25_NestedCycleRejection ==
    IdlLoadReturned =>
        /\ OnNestedCycle(idl_in.types) # {} => IsErr(idl_loaded)
        /\ ( /\ OnNestedCycle(idl_in.types) # {}
             /\ NamesDistinct(idl_in.types)
             /\ NestedReferencesDefined(idl_in.types)
             /\ InstructionsNamed(idl_in.instructions) )
           => \E name \in OnNestedCycle(idl_in.types) : idl_loaded = Err(ErrCycle(name))

(* struct A { v: Vec<A> } is returned by decode_idl_data *)
C25_Witness ==
    /\ idl_pc = "loaded"
    /\ idl_in.types = <<StructDef("A", <<IdlField("v", VecOf(Defined("A")))>>)>>
    /\ OnNestedCycle(idl_in.types) = {"A"}
    /\ OnCycle(idl_in.types) = {}
    /\ IsOk(idl_loaded)

(* struct A { b: Option<B> } with struct B { a: [A; 1] } is returned too *)
C25_WitnessTwoTypes ==
    /\ idl_pc = "loaded"
    /\ idl_in.types = <<StructDef("A", <<IdlField("b", OptionOf(Defined("B")))>>),
                        StructDef("B", <<IdlField("a", ArrayOf(Defined("A"), 1))>>)>>
    /\ OnNestedCycle(idl_in.types) = {"A", "B"}
    /\ IsOk(idl_loaded)

(* The names that an IDL refers to: in its type definitions and in the     *)
(* types of the arguments of its instructions, at any depth                *)
ReferencedNames(idl) ==
    {e[2] : e \in NestedReferenceGraph(idl.types)}
    \cup UNION {UNION {NestedNames(idl.instructions[k].args[a].ty)
                       : a \in 1..Len(idl.instructions[k].args)}
                : k \in 1..Len(idl.instructions)}

IsTypeNotFound(r) ==
    /\ IsErr(r)
    /\ HasToken(r.msg, "not found in IDL")
    /\ HasToken(r.msg, "Type")

(* C26: in every IDL that decode_idl_data returns, each Defined(name), in  *)
(* an instruction argument, a struct field, an enum variant field or an    *)
(* alias target, directly or inside a container type, names a type of the  *)
(* types list, so that decoding call data against a loaded IDL never fails *)
(* with 'Type not found'; and the type names are pairwise distinct.        *)
C26_DefinedResolves ==
    IsOk(idl_loaded) =>
        /\ \A name \in ReferencedNames(idl_loaded.val) : HasType(idl_loaded.val.types, name)
        /\ NamesDistinct(idl_loaded.val.types)
        /\ idl_pc \in {"parsed", "mapped"} => ~IsTypeNotFound(idl_args)

(* What the load does check: the names are distinct and the types that the *)
(* definitions are, not those that they hold in a container, are defined   *)
C26_CheckedReferences ==
    IsOk(idl_loaded) =>
        /\ NamesDistinct(idl_loaded.val.types)
        /\ ReferencesDefined(idl_loaded.val.types)

(* An instruction whose argument is of type A in an IDL without types: the *)
(* IDL is returned and the call data cannot be decoded                     *)
C26_Witness ==
    /\ idl_pc = "parsed"
    /\ IsOk(idl_loaded)
    /\ idl_loaded.val.types = <<>>
    /\ idl_loaded.val.instructions[1].args = <<IdlField("v", Defined("A"))>>
    /\ idl_args = Err(ErrArgument(ErrTypeNotFound("A")))

(* struct A { z: [Z; 1] } without a type Z *)
C26_WitnessNested ==
    /\ idl_pc = "parsed"
    /\ IsOk(idl_loaded)
    /\ idl_loaded.val.types = <<StructDef("A", <<IdlField("z", ArrayOf(Defined("Z"), 1))>>)>>
    /\ idl_args = Err(ErrArgument(ErrTypeNotFound("Z")))

(* Two types of one name: the IDL is not returned *)
C26_WitnessDuplicate ==
    /\ idl_pc = "rejected"
    /\ Len(idl_in.types) = 2
    /\ idl_in.types[1].name = idl_in.types[2].name
    /\ idl_loaded = Err(ErrMultipleTypes("A"))

(* The pairs of positions of instructions whose discriminators collide:    *)
(* one is a prefix of the other, or they are equal                         *)
Colliding(instructions) ==
    {p \in (1..Len(instructions)) \X (1..Len(instructions)) :
        /\ p[1] # p[2]
        /\ IsPrefix(instructions[p[1]].discriminator.val, instructions[p[2]].discriminator.val)}

(* C27: in every IDL that decode_idl_data returns, each instruction has a  *)
(* discriminator (the default one where none is written) and no two        *)
(* instructions have discriminators of which one is a prefix of the other  *)
(* or that are equal: an IDL with two such instructions is not returned.   *)
C27_DiscriminatorUniqueness ==
    IsOk(idl_loaded) =>
        /\ \A k \in 1..Len(idl_loaded.val.instructions) :
             idl_loaded.val.instructions[k].discriminator.some
        /\ Colliding(idl_loaded.val.instructions) = {}

(* What the load does establish: every instruction has a discriminator,    *)
(* the written one or the default of its name                              *)
C27_DiscriminatorsFilled ==
    IsOk(idl_loaded) =>
        /\ Len(idl_loaded.val.instructions) = Len(idl_in.instructions)
        /\ \A k \in 1..Len(idl_in.instructions) :
             idl_loaded.val.instructions[k].discriminator
                = IF idl_in.instructions[k].discriminator.some
                  THEN idl_in.instructions[k].discriminator
                  ELSE Some(Take(Sha256Global(to_snake_case(idl_in.instructions[k].name)), 8))

(* Two instructions with the discriminator [2] are loaded, and a call with *)
(* that discriminator is taken for the first                               *)
C27_Witness ==
    /\ idl_pc = "found"
    /\ IsOk(idl_loaded)
    /\ Len(idl_loaded.val.instructions) = 2
    /\ idl_loaded.val.instructions[1].name = "b"
    /\ idl_loaded.val.instructions[2].name = "b2"
    /\ idl_loaded.val.instructions[1].discriminator = Some(<<2>>)
    /\ idl_loaded.val.instructions[2].discriminator = Some(<<2>>)
    /\ idl_data = <<2, 9>>
    /\ idl_found.val.name = "b"

(* Two instructions of one name without a discriminator are loaded with    *)
(* the same default discriminator                                          *)
C27_WitnessDefault ==
    /\ idl_pc = "loaded"
    /\ Len(idl_in.instructions) = 2
    /\ idl_in.instructions[1] = IdlInstruction("Initialize", None, <<>>, <<>>)
    /\ idl_in.instructions[2] = idl_in.instructions[1]
    /\ idl_loaded.val.instructions[1].discriminator = Some(Sha256Global("initialize"))
    /\ idl_loaded.val.instructions[2].discriminator = Some(Sha256Global("initialize"))

(* The references of an instruction beyond the accounts that the IDL names *)
ExtraReferences(references, idl_account_list) ==
    SubSeq(references, Len(idl_account_list) + 1, Len(references))

Values(entries) == [k \in 1..Len(entries) |-> entries[k][2]]

(* C28: when an instruction supplies more account references than the IDL  *)
(* instruction names, the output of create_accounts_map holds              *)
(* every reference: after the entries of the named accounts come the       *)
(* references beyond the named list, in their order, so that none is       *)
(* dropped.                                                                *)
C28_ExtraAccountsKept ==
    (MapReturned /\ Len(idl_accounts) > Len(idl_found.val.accounts)) =>
        LET extras == ExtraReferences(idl_accounts, idl_found.val.accounts)
            names == {idl_found.val.accounts[k].name : k \in 1..Len(idl_found.val.accounts)}
        IN /\ IsOk(idl_accounts_map)
           /\ Len(idl_accounts_map.val) = Cardinality(names) + Len(extras)
           /\ SubSeq(Values(idl_accounts_map.val), Cardinality(names) + 1, Len(idl_accounts_map.val))
                = [k \in 1..Len(extras) |-> StringForm(extras[k])]

(* What the function gives: when an instruction supplies at least as many  *)
(* references as the IDL instruction names, create_accounts_map returns    *)
(* a map with                                                              *)
(* one entry per name of the IDL instruction's accounts and no other       *)
(* entry: the references beyond the named list cause no error and are not  *)
(* in the output.                                                          *)
C28_NamedAccountsOnly ==
    (MapReturned /\ Len(idl_accounts) >= Len(idl_found.val.accounts)) =>
        /\ IsOk(idl_accounts_map)
        /\ Keys(idl_accounts_map.val)
             = {idl_found.val.accounts[k].name : k \in 1..Len(idl_found.val.accounts)}
        /\ Len(idl_accounts_map.val) = Cardinality(Keys(idl_accounts_map.val))

(* One named account and two references with different keys: the second    *)
(* key is not in the output                                                *)
C28_Witness ==
    /\ idl_pc = "mapped"
    /\ Len(idl_found.val.accounts) = 1
    /\ Len(idl_accounts) = 2
    /\ idl_accounts[1].kind = "Static"
    /\ idl_accounts[2].kind = "Static"
    /\ idl_accounts[1] # idl_accounts[2]
    /\ idl_accounts_map = Ok(<<<<"payer", StringForm(idl_accounts[1])>>>>, <<>>)
    /\ \A k \in 1..Len(idl_accounts_map.val) :
         idl_accounts_map.val[k][2] # StringForm(idl_accounts[2])

(* No named account: the output is empty whatever the references are *)
C28_WitnessNoNames ==
    /\ idl_pc = "mapped"
    /\ idl_found.val.accounts = <<>>
    /\ Len(idl_accounts) = 3
    /\ idl_accounts_map = Ok(<<>>, <<>>)

(* The positions of the functions of the ABI that have the selector of the *)
(* call data                                                               *)
WithSelector(functions, data) ==
    {k \in 1..Len(functions) : selector(functions[k]) = Take(data, 4)}

SelectReturned == evm_pc \notin {"idle", "new"}

(* C29: when two functions of the ABI have the selector of the call data,  *)
(* decode_transaction fails with a selector-collision error and decodes    *)
(* against neither of the two functions.                                   *)
C29_SelectorCollision ==
    (/\ SelectReturned
     /\ Len(tx_data) >= 4
     /\ Cardinality(WithSelector(abi, tx_data)) >= 2) =>
        /\ function = Pending
        /\ evm_pc = "failed"
        /\ IsErr(decoded)
        /\ decoded.msg \notin {ErrTooShort, ErrFunctionNotFound}

(* What the lookup does: the function decoded against is the first one of  *)
(* the ABI, in the order of the names, that has the selector               *)
C29_FirstFunctionSelected ==
    (SelectReturned /\ Len(tx_data) >= 4 /\ WithSelector(abi, tx_data) # {}) =>
        /\ function # Pending
        /\ \E k \in WithSelector(abi, tx_data) :
             /\ function = abi[k]
             /\ \A j \in WithSelector(abi, tx_data) : k <= j
        /\ evm_pc = "done" =>
             /\ IsOk(decoded)
             /\ decoded.val.function_name = function.name

(* The call data of transfer(address,uint256) is decoded as                *)
(* many_msg_babbage(bytes1)                                                *)
C29_Witness ==
    /\ evm_pc = "done"
    /\ abi = BabbageAbi
    /\ tx_data = <<169, 5, 156, 187>> \o StaticWord("address") \o StaticWord("uint256")
    /\ IsOk(decoded)
    /\ decoded.val.function_name = "many_msg_babbage"
    /\ Len(decoded.val.parameters) = 1

(* burn(uint256) stands before the function that shares its selector *)
C29_WitnessFirst ==
    /\ evm_pc = "done"
    /\ abi = BurnAbi
    /\ Take(tx_data, 4) = <<66, 150, 108, 104>>
    /\ IsOk(decoded)
    /\ decoded.val.function_name = "burn"

(* C30: for every IDL that decode_idl_data accepts and every instruction   *)
(* data, the decoding of the arguments ends with a value or an error: no   *)
(* accepted type definition lets parse_type and parse_defined_type recurse *)
(* without taking input.                                                   *)
C30_Termination ==
    (ParseReturned /\ IsOk(idl_loaded)) => (IsOk(idl_args) \/ IsErr(idl_args))

(* Where the decoding does not end, a type of the IDL reaches itself       *)
(* through a container, which the check at load time does not follow       *)
C30_OverflowOnNestedCycle ==
    (ParseReturned /\ IsPanic(idl_args)) =>
        /\ idl_args = StackOverflow
        /\ OnNestedCycle(idl_loaded.val.types) # {}

(* The accepted struct Loop { inner: [Loop; 1] } is decoded from data that *)
(* holds only the discriminator: the recursion takes no byte and does not  *)
(* end                                                                     *)
C30_Witness ==
    /\ ParseReturned
    /\ IsOk(idl_loaded)
    /\ \E k \in 1..Len(idl_loaded.val.types) :
         /\ idl_loaded.val.types[k].name = "Loop"
         /\ "Loop" \in OnNestedCycle(idl_loaded.val.types)
    /\ IsPanic(idl_args)

====
